---------------------------- MODULE Spec2Model ----------------------------
(***************************************************************************)
(* Model of the risk scoring and consensus core of WarGames/JOSHUA:        *)
(* RiskCalculationEngine (src/src/engines/risk_calculation.rs),            *)
(* ConsensusAnalyzer (src/src/analyzers/consensus.rs), RiskFactor,         *)
(* Assessment and the shared enumerations.                                 *)
(*                                                                         *)
(* f64 values are modelled as exact fractions <<n, d>> in lowest terms     *)
(* with d >= 0; d = 0 encodes the non-finite values: <<0,0>> is NaN,       *)
(* <<1,0>> is +inf and <<-1,0>> is -inf.  The operators below follow the   *)
(* IEEE/Rust rules for these values (x/0, 0/0, min/max/clamp with NaN,     *)
(* saturating `as u32`).  The rounding of finite f64 arithmetic is         *)
(* modelled where the order of the operations is not fixed by the code,    *)
(* in calculate_weighted_score (RoundF64); elsewhere results are exact.    *)
(***************************************************************************)
EXTENDS Integers, Sequences, FiniteSets, TLC

VARIABLES
    engine,    \* the RiskCalculationEngine the caller holds (config, historical_baseline)
    analyzer,  \* the ConsensusAnalyzer the caller holds (config)
    call,      \* the operation last invoked, its arguments and its outcome; op "idle" between calls
    threads,   \* per concurrent caller of the shared engine and analyzer: the call in
               \* flight, its position and its local variables
    limiter    \* the RateLimiter of the Claude client (limits, counters, age of the
               \* window, holder of the window_start mutex) and the acquire calls in
               \* flight on it (tasks)

vars == <<engine, analyzer, call, threads, limiter>>

(***************************************************************************)
(* f64 arithmetic                                                          *)
(***************************************************************************)
Abs(x) == IF x < 0 THEN -x ELSE x

Sign(x) == IF x < 0 THEN -1 ELSE IF x > 0 THEN 1 ELSE 0

RECURSIVE GCD(_, _)
GCD(a, b) == IF b = 0 THEN a ELSE GCD(b, a % b)

\* the fraction n/d in lowest terms with a non-negative denominator
Frac(n, d) ==
    IF d = 0 THEN <<Sign(n), 0>>
    ELSE LET g == GCD(Abs(n), Abs(d))
             s == IF d < 0 THEN -1 ELSE 1
         IN  <<(s * n) \div g, (s * d) \div g>>

NaN == <<0, 0>>
Zero == <<0, 1>>
One == <<1, 1>>

IsNaN(x) == x = NaN
IsFinite(x) == x[2] # 0

FAdd(a, b) ==
    IF ~IsFinite(a) /\ ~IsFinite(b)
    THEN (IF a = b THEN a ELSE NaN)
    ELSE IF ~IsFinite(a) THEN a
    ELSE IF ~IsFinite(b) THEN b
    ELSE LET g == GCD(a[2], b[2])
         IN  Frac(a[1] * (b[2] \div g) + b[1] * (a[2] \div g), (a[2] \div g) * b[2])

FNeg(a) == <<-a[1], a[2]>>

FSub(a, b) == FAdd(a, FNeg(b))

FMul(a, b) ==
    LET g1 == GCD(Abs(a[1]), b[2])
        g2 == GCD(Abs(b[1]), a[2])
    IN  IF IsFinite(a) /\ IsFinite(b) /\ a[1] # 0 /\ b[1] # 0
        THEN <<(a[1] \div g1) * (b[1] \div g2), (a[2] \div g2) * (b[2] \div g1)>>
        ELSE Frac(a[1] * b[1], a[2] * b[2])

FDiv(a, b) == FMul(a, Frac(b[2] * Sign(b[1]), Abs(b[1])))

\* a < b, a <= b: false whenever an operand is NaN
FLt(a, b) ==
    /\ ~IsNaN(a) /\ ~IsNaN(b)
    /\ IF IsFinite(a) /\ IsFinite(b)
       THEN LET g == GCD(a[2], b[2])
            IN  a[1] * (b[2] \div g) < b[1] * (a[2] \div g)
       ELSE IF ~IsFinite(a) /\ ~IsFinite(b) THEN a[1] < b[1]
       ELSE IF ~IsFinite(a) THEN a[1] < 0
       ELSE b[1] > 0

FLe(a, b) == ~IsNaN(a) /\ ~IsNaN(b) /\ (a = b \/ FLt(a, b))

\* f64::min / f64::max: the other operand when one is NaN
FMin(a, b) == IF IsNaN(a) THEN b ELSE IF IsNaN(b) THEN a ELSE IF FLt(b, a) THEN b ELSE a

FMax(a, b) == IF IsNaN(a) THEN b ELSE IF IsNaN(b) THEN a ELSE IF FLt(a, b) THEN b ELSE a

\* f64::clamp: NaN stays NaN
FClamp(x, lo, hi) == IF IsNaN(x) THEN x ELSE IF FLt(x, lo) THEN lo ELSE IF FLt(hi, x) THEN hi ELSE x

\* f64::round: to the nearest integer, halves away from zero (finite x)
FRound(x) ==
    IF ~IsFinite(x) THEN x
    ELSE IF x[1] >= 0 THEN <<(2 * x[1] + x[2]) \div (2 * x[2]), 1>>
    ELSE <<-((2 * (-x[1]) + x[2]) \div (2 * x[2])), 1>>

\* `x as u32` for an integral f64: NaN and negatives give 0, +inf saturates
\* (at 2147483647 here, the largest integer TLC represents)
AsU32(x) ==
    IF IsNaN(x) THEN 0
    ELSE IF ~IsFinite(x) THEN (IF x[1] > 0 THEN 2147483647 ELSE 0)
    ELSE IF x[1] < 0 THEN 0
    ELSE x[1] \div x[2]

\* doubles the fixed-point quotient q + r/d `steps` times
RECURSIVE ScaleUp(_, _, _, _)
ScaleUp(q, r, d, steps) ==
    IF steps = 0 THEN q
    ELSE ScaleUp(2 * q + (IF 2 * r >= d THEN 1 ELSE 0), (2 * r) % d, d, steps - 1)

\* the largest e in 0..15 with floor(x * 4^e) < 2^30
RECURSIVE SqrtExp(_, _)
SqrtExp(x, e) ==
    IF e = 15 \/ ScaleUp(x[1] \div x[2], x[1] % x[2], x[2], 2 * e) >= 268435456
    THEN e ELSE SqrtExp(x, e + 1)

\* the largest k in lo..hi with k * k <= q
RECURSIVE ISqrt(_, _, _)
ISqrt(q, lo, hi) ==
    IF lo = hi THEN lo
    ELSE LET mid == (lo + hi + 1) \div 2
         IN  IF mid * mid <= q THEN ISqrt(q, mid, hi) ELSE ISqrt(q, lo, mid - 1)

RECURSIVE Pow2(_)
Pow2(e) == IF e = 0 THEN 1 ELSE 2 * Pow2(e - 1)

\* f64::sqrt, rounded down to 15 significant bits and no finer than 2^-15;
\* NaN for negatives
FSqrt(x) ==
    IF IsNaN(x) \/ x[1] < 0 THEN NaN
    ELSE IF ~IsFinite(x) THEN x
    ELSE LET e == SqrtExp(x, 0)
             q == ScaleUp(x[1] \div x[2], x[1] % x[2], x[2], 2 * e)
         IN  Frac(ISqrt(q, 0, 32767), Pow2(e))

In01(x) == FLe(Zero, x) /\ FLe(x, One)

\* significant bits kept by a rounded f64 operation (53 in the build)
SigBits == 6

\* the least mantissa of SigBits bits and the finest scale a value is rounded at
MantissaMin == Pow2(SigBits - 1)
ScaleMax == Pow2(SigBits + 4)

\* <<m, r, p>> with (q + r/d) * p' / p = m + r'/d: the quotient doubled until it
\* has SigBits bits or the scale reaches ScaleMax
RECURSIVE Normalise(_, _, _, _)
Normalise(q, r, d, p) ==
    IF q >= MantissaMin \/ p >= ScaleMax THEN <<q, r, p>>
    ELSE Normalise(2 * q + (IF 2 * r >= d THEN 1 ELSE 0), (2 * r) % d, d, 2 * p)

\* the finite value v # 0 rounded to the nearest value of SigBits significant bits,
\* ties to the even one
RoundToSigBits(v) ==
    LET n == Abs(v[1])
        s == Normalise(n \div v[2], n % v[2], v[2], 1)
        m == IF 2 * s[2] < v[2] THEN s[1]
             ELSE IF 2 * s[2] > v[2] THEN s[1] + 1
             ELSE IF s[1] % 2 = 0 THEN s[1] ELSE s[1] + 1
    IN  Frac(Sign(v[1]) * m, s[3])

\* the result of an f64 operation whose exact value is x
RoundF64(x) ==
    CHOOSE r \in {IF ~IsFinite(v) \/ v[1] = 0 THEN v ELSE RoundToSigBits(v) : v \in {x}} : TRUE

(***************************************************************************)
(* constants.rs                                                            *)
(***************************************************************************)
MAX_SECONDS_TO_MIDNIGHT == 1440
CRITICAL_THRESHOLD == 100
SEVERE_THRESHOLD == 200
HIGH_THRESHOLD == 400
MODERATE_THRESHOLD == 600
LOW_THRESHOLD == 900

(***************************************************************************)
(* Risk-level buckets                                                      *)
(***************************************************************************)
RiskLevel == {"Critical", "Severe", "High", "Moderate", "Low", "Minimal"}

\* from_seconds with the Moderate and Low arms exchanged
from_seconds_swapped(seconds) ==
    IF seconds \in 0..100 THEN "Critical"
    ELSE IF seconds \in 101..200 THEN "Severe"
    ELSE IF seconds \in 201..400 THEN "High"
    ELSE IF seconds \in 401..600 THEN "Low"
    ELSE IF seconds \in 601..900 THEN "Moderate"
    ELSE "Minimal"

\* RiskLevel::from_seconds
from_seconds(seconds) ==
    IF seconds \in 0..100 THEN "Critical"
    ELSE IF seconds \in 101..200 THEN "Severe"
    ELSE IF seconds \in 201..400 THEN "High"
    ELSE IF seconds \in 401..600 THEN "Moderate"
    ELSE IF seconds \in 601..900 THEN "Low"
    ELSE "Minimal"

\* ConsensusAnalyzer::seconds_to_risk_level
seconds_to_risk_level(seconds) ==
    IF seconds \in 0..CRITICAL_THRESHOLD THEN "Critical"
    ELSE IF seconds <= SEVERE_THRESHOLD THEN "Severe"
    ELSE IF seconds <= HIGH_THRESHOLD THEN "High"
    ELSE IF seconds <= MODERATE_THRESHOLD THEN "Moderate"
    ELSE "Low"

\* Assessment::risk_level
risk_level(assessment) ==
    IF assessment.seconds_to_midnight \in 0..CRITICAL_THRESHOLD THEN "Critical"
    ELSE IF assessment.seconds_to_midnight <= SEVERE_THRESHOLD THEN "Severe"
    ELSE IF assessment.seconds_to_midnight <= HIGH_THRESHOLD THEN "High"
    ELSE IF assessment.seconds_to_midnight <= MODERATE_THRESHOLD THEN "Moderate"
    ELSE "Low"

\* Assessment::seconds_to_risk_score
seconds_to_risk_score(seconds) ==
    FSub(One, FDiv(<<seconds, 1>>, <<MAX_SECONDS_TO_MIDNIGHT, 1>>))

\* Assessment::new: the fields the scoring core reads
AssessmentNew(seconds) ==
    [seconds_to_midnight |-> seconds,
     raw_risk_score |-> seconds_to_risk_score(seconds),
     bayesian_adjusted_score |-> seconds_to_risk_score(seconds),
     overall_confidence |-> "Moderate",
     trend_direction |-> "Stable"]

(***************************************************************************)
(* Scale translation                                                       *)
(***************************************************************************)
\* score_to_seconds with the cast applied without rounding first (truncation)
score_to_seconds_truncated(score) ==
    AsU32(FMul(<<1440, 1>>, FSub(One, score)))

\* score_to_seconds without the inversion: 1440 * score
score_to_seconds_uninverted(score) ==
    AsU32(FRound(FMul(<<1440, 1>>, score)))

\* RiskCalculationEngine::score_to_seconds
score_to_seconds(score) ==
    AsU32(FRound(FMul(<<1440, 1>>, FSub(One, score))))


(***************************************************************************)
(* types.rs                                                                *)
(***************************************************************************)
ConfidenceLevel == {"VeryLow", "Low", "Moderate", "High", "VeryHigh"}

\* ConfidenceLevel::to_score (to_numeric is its alias)
to_score(level) ==
    CASE level = "VeryLow" -> <<1, 5>>
      [] level = "Low" -> <<2, 5>>
      [] level = "Moderate" -> <<3, 5>>
      [] level = "High" -> <<4, 5>>
      [] level = "VeryHigh" -> <<1, 1>>

to_numeric(level) == to_score(level)

TrendDirection == {"Improving", "Deteriorating", "Stable", "Uncertain"}

\* enum RiskCategory, in declaration order
RiskCategory ==
    <<"NuclearArsenalChanges", "DoctrineAndPosture", "ArmsControlBreakdown",
      "RegionalConflicts", "LeadershipAndRhetoric", "LeadershipInstability",
      "TechnicalIncidents", "CommunicationBreakdown", "CommunicationFailures",
      "EmergingTechnology", "EmergingTechRisks", "EconomicFactors", "EconomicPressure">>

RiskCategories == {RiskCategory[i] : i \in DOMAIN RiskCategory}

\* RiskCategory::all
all ==
    <<"NuclearArsenalChanges", "ArmsControlBreakdown", "RegionalConflicts",
      "LeadershipInstability", "TechnicalIncidents", "CommunicationFailures",
      "EmergingTechRisks", "EconomicPressure">>

\* default_weight giving every category the weight 0.15
default_weight_flat(category) == <<3, 20>>

\* RiskCategory::default_weight
default_weight(category) ==
    IF category = "RegionalConflicts" THEN <<1, 5>>
    ELSE IF category \in {"NuclearArsenalChanges", "DoctrineAndPosture",
                          "ArmsControlBreakdown", "TechnicalIncidents"} THEN <<3, 20>>
    ELSE IF category \in {"LeadershipInstability", "LeadershipAndRhetoric",
                          "CommunicationBreakdown", "CommunicationFailures",
                          "EmergingTechnology", "EmergingTechRisks"} THEN <<1, 10>>
    ELSE <<1, 20>>

(***************************************************************************)
(* Sequences of f64                                                        *)
(***************************************************************************)
RECURSIVE FSum(_)
FSum(s) == IF s = <<>> THEN Zero ELSE FAdd(s[1], FSum(Tail(s)))

\* inserts x into the ascending sequence s, after the elements equal to it
RECURSIVE InsertAsc(_, _)
InsertAsc(x, s) ==
    IF s = <<>> THEN <<x>>
    ELSE IF FLt(x, s[1]) THEN <<x>> \o s
    ELSE <<s[1]>> \o InsertAsc(x, Tail(s))

\* Vec<f64>::sort_by(partial_cmp), ascending
RECURSIVE SortAsc(_)
SortAsc(s) ==
    IF s = <<>> THEN <<>>
    ELSE InsertAsc(s[Len(s)], SortAsc(SubSeq(s, 1, Len(s) - 1)))

\* the members of the category set S, listed in declaration order
CategoriesIn(S) == SelectSeq(RiskCategory, LAMBDA c : c \in S)

\* the keys a std HashMap hasher (RandomState) can be created with; every map of
\* one call is taken to hash alike
HashSeeds == {0, 1}

\* the order in which a HashMap<RiskCategory, _> with key set S and the given
\* hasher keys yields its entries
HashMapIter(seed, S) ==
    LET cats == CategoriesIn(S)
    IN  IF seed = 0 THEN cats ELSE [i \in DOMAIN cats |-> cats[Len(cats) + 1 - i]]

\* the loop `acc += term` over terms, front to back, from 0.0
RECURSIVE Accumulate(_, _)
Accumulate(acc, terms) ==
    IF terms = <<>> THEN acc
    ELSE Accumulate(RoundF64(FAdd(acc, terms[1])), Tail(terms))

(***************************************************************************)
(* models/risk_factor.rs                                                   *)
(***************************************************************************)
\* RiskFactor::new (id and timestamp are not modelled)
RiskFactorNew(category, name, value, confidence) ==
    LET category_weight == default_weight(category)
        weighted_value == FMul(value, category_weight)
    IN  [category |-> category,
         name |-> name,
         value |-> value,
         weighted_value |-> weighted_value,
         contribution_to_risk |-> weighted_value,
         confidence |-> confidence,
         trend |-> "None"]

\* RiskFactor::set_trend
set_trend(factor, trend) == [factor EXCEPT !.trend = trend]

(***************************************************************************)
(* engines/risk_calculation.rs                                             *)
(***************************************************************************)
\* RiskCalculationConfig::default: the category weight table
DefaultCategoryWeights ==
    [c \in {"NuclearArsenalChanges", "DoctrineAndPosture", "RegionalConflicts",
            "LeadershipAndRhetoric", "TechnicalIncidents", "CommunicationBreakdown",
            "EmergingTechnology", "EconomicFactors"} |->
        CASE c = "NuclearArsenalChanges" -> <<3, 20>>
          [] c = "DoctrineAndPosture" -> <<3, 20>>
          [] c = "RegionalConflicts" -> <<1, 5>>
          [] c = "LeadershipAndRhetoric" -> <<1, 10>>
          [] c = "TechnicalIncidents" -> <<3, 20>>
          [] c = "CommunicationBreakdown" -> <<1, 10>>
          [] c = "EmergingTechnology" -> <<1, 10>>
          [] c = "EconomicFactors" -> <<1, 20>>]

\* RiskCalculationConfig::default
RiskCalculationConfigDefault ==
    [category_weights |-> DefaultCategoryWeights,
     monte_carlo_iterations |-> 10000,
     bayesian_prior_strength |-> <<3, 10>>,
     enable_bayesian_adjustment |-> TRUE,
     enable_monte_carlo |-> TRUE]

\* RiskCalculationEngine::new
RiskCalculationEngineNew(config) ==
    [config |-> config, historical_baseline |-> <<62, 1000>>]

\* RiskCalculationEngine::calculate_category_scores
calculate_category_scores(self, factors) ==
    LET present == {factors[i].category : i \in DOMAIN factors}
        values(c) == SelectSeq([i \in DOMAIN factors |-> factors[i]],
                               LAMBDA f : f.category = c)
        avg(c) == FDiv(FSum([i \in DOMAIN values(c) |-> values(c)[i].value]),
                       <<Len(values(c)), 1>>)
    IN  [c \in present |-> FClamp(avg(c), Zero, One)]

\* calculate_weighted_score, lines 245-251: the division guarded by total_weight > 0
\* and the final clamp
FinalScore(weighted_sum, total_weight) ==
    FClamp(IF FLt(Zero, total_weight)
           THEN RoundF64(FDiv(weighted_sum, total_weight))
           ELSE Zero,
           Zero, One)

\* calculate_weighted_score without the renormalisation: the weighted sum itself,
\* as if every category of the table were present
calculate_weighted_score_unnormalised(self, category_scores, seed) ==
    LET weights == self.config.category_weights
        found == HashMapIter(seed, DOMAIN category_scores \cap DOMAIN weights)
    IN  FClamp(Accumulate(Zero, [i \in DOMAIN found |->
                                   RoundF64(FMul(RoundF64(category_scores[found[i]]),
                                                 RoundF64(weights[found[i]])))]),
               Zero, One)

\* RiskCalculationEngine::calculate_weighted_score; seed stands for the keys of the
\* map's hasher, which fix the order of the loop of line 237
calculate_weighted_score(self, category_scores, seed) ==
    LET weights == self.config.category_weights
        found == HashMapIter(seed, DOMAIN category_scores \cap DOMAIN weights)
    IN  FinalScore(
            Accumulate(Zero, [i \in DOMAIN found |->
                                RoundF64(FMul(RoundF64(category_scores[found[i]]),
                                              RoundF64(weights[found[i]])))]),
            Accumulate(Zero, [i \in DOMAIN found |-> RoundF64(weights[found[i]])]))

\* apply_bayesian_adjustment dividing by the confidence weight alone, unclamped
apply_bayesian_adjustment_unnormalised(self, raw_score, factors) ==
    LET avg_confidence ==
            FDiv(FSum([i \in DOMAIN factors |-> to_numeric(factors[i].confidence)]),
                 <<IF Len(factors) > 1 THEN Len(factors) ELSE 1, 1>>)
        baseline_weight == FMul(FSub(One, avg_confidence),
                                self.config.bayesian_prior_strength)
    IN  FDiv(FAdd(FMul(raw_score, avg_confidence),
                  FMul(self.historical_baseline, baseline_weight)),
             avg_confidence)

\* apply_bayesian_adjustment giving the baseline the whole prior strength,
\* whatever the confidence
apply_bayesian_adjustment_fixed_prior(self, raw_score, factors) ==
    LET avg_confidence ==
            FDiv(FSum([i \in DOMAIN factors |-> to_numeric(factors[i].confidence)]),
                 <<IF Len(factors) > 1 THEN Len(factors) ELSE 1, 1>>)
        baseline_weight == self.config.bayesian_prior_strength
        adjusted == FDiv(FAdd(FMul(raw_score, avg_confidence),
                              FMul(self.historical_baseline, baseline_weight)),
                         FAdd(avg_confidence, baseline_weight))
    IN  FClamp(adjusted, Zero, One)

\* RiskCalculationEngine::apply_bayesian_adjustment
apply_bayesian_adjustment(self, raw_score, factors) ==
    LET avg_confidence ==
            FDiv(FSum([i \in DOMAIN factors |-> to_numeric(factors[i].confidence)]),
                 <<IF Len(factors) > 1 THEN Len(factors) ELSE 1, 1>>)
        confidence_weight == avg_confidence
        baseline_weight == FMul(FSub(One, avg_confidence),
                                self.config.bayesian_prior_strength)
        total_weight == FAdd(confidence_weight, baseline_weight)
        adjusted == FDiv(FAdd(FMul(raw_score, confidence_weight),
                              FMul(self.historical_baseline, baseline_weight)),
                         total_weight)
    IN  FClamp(adjusted, Zero, One)

\* the score of sweep iteration i with the variation running over [0, 0.2) instead
\* of [-0.1, 0.1)
SimulatedScore_uncentred(self, factors, i, seed) ==
    LET n == self.config.monte_carlo_iterations
        variation == FMul(Frac(i, n), <<1, 5>>)
        sim_factors ==
            [k \in DOMAIN factors |->
                LET uncertainty == FSub(One, to_numeric(factors[k].confidence))
                    noise == FMul(variation, uncertainty)
                IN  [factors[k] EXCEPT
                        !.value = FClamp(FAdd(factors[k].value, noise), Zero, One)]]
    IN  calculate_weighted_score(self, calculate_category_scores(self, sim_factors), seed)

\* run_monte_carlo_simulation: the score of sweep iteration i (lines 288-303)
SimulatedScore(self, factors, i, seed) ==
    LET n == self.config.monte_carlo_iterations
        variation == FMul(FSub(Frac(i, n), <<1, 2>>), <<1, 5>>)
        sim_factors ==
            [k \in DOMAIN factors |->
                LET uncertainty == FSub(One, to_numeric(factors[k].confidence))
                    noise == FMul(variation, uncertainty)
                IN  [factors[k] EXCEPT
                        !.value = FClamp(FAdd(factors[k].value, noise), Zero, One)]]
    IN  calculate_weighted_score(self, calculate_category_scores(self, sim_factors), seed)

\* floor(len * num / 100): (len as f64 * 0.05) as usize and (len as f64 * 0.95) as usize
PercentileIndex(len, num) == (len * num) \div 100

\* run_monte_carlo_simulation, lines 311-328: the statistics of the sorted scores
SimulationStatistics(simulated_scores, len, mean) ==
    [status |-> "Ok",
     mean |-> mean,
     std_dev |-> FSqrt(FDiv(FSum([i \in 1..len |->
                                    FMul(FSub(simulated_scores[i], mean),
                                         FSub(simulated_scores[i], mean))]),
                            <<len, 1>>)),
     percentile_5 |-> simulated_scores[PercentileIndex(len, 5) + 1],
     percentile_95 |-> simulated_scores[PercentileIndex(len, 95) + 1],
     median |-> simulated_scores[(len \div 2) + 1]]

\* run_monte_carlo_simulation, lines 308-310: sort and mean of the scores; status
\* "Panic" stands for the index-out-of-bounds panic of lines 318-320 on an empty
\* score vector
SortedStatistics(simulated_scores) ==
    IF Len(simulated_scores) = 0 THEN [status |-> "Panic"]
    ELSE SimulationStatistics(simulated_scores, Len(simulated_scores),
                              FDiv(FSum(simulated_scores), <<Len(simulated_scores), 1>>))

\* RiskCalculationEngine::run_monte_carlo_simulation
run_monte_carlo_simulation(self, factors, seed) ==
    SortedStatistics(SortAsc([i \in 1..self.config.monte_carlo_iterations |->
                                SimulatedScore(self, factors, i - 1, seed)]))

\* determine_trend by simple majority of the two counts
determine_trend_majority(self, factors) ==
    LET deteriorating == Cardinality({i \in DOMAIN factors : factors[i].trend = "Deteriorating"})
        improving == Cardinality({i \in DOMAIN factors : factors[i].trend = "Improving"})
    IN  IF deteriorating > improving THEN "Deteriorating"
        ELSE IF improving > deteriorating THEN "Improving"
        ELSE "Stable"

\* RiskCalculationEngine::determine_trend
determine_trend(self, factors) ==
    LET deteriorating == Cardinality({i \in DOMAIN factors : factors[i].trend = "Deteriorating"})
        improving == Cardinality({i \in DOMAIN factors : factors[i].trend = "Improving"})
    IN  IF deteriorating > improving * 2 THEN "Deteriorating"
        ELSE IF improving > deteriorating * 2 THEN "Improving"
        ELSE "Stable"

\* inserts the pair x into s, sorted by descending contribution, after its equals
RECURSIVE InsertDesc(_, _)
InsertDesc(x, s) ==
    IF s = <<>> THEN <<x>>
    ELSE IF FLt(s[1][2], x[2]) THEN <<x>> \o s
    ELSE <<s[1]>> \o InsertDesc(x, Tail(s))

\* Vec<(String, f64)>::sort_by(|a, b| b.1.partial_cmp(&a.1)): stable, descending
RECURSIVE SortDesc(_)
SortDesc(s) ==
    IF s = <<>> THEN <<>>
    ELSE InsertDesc(s[Len(s)], SortDesc(SubSeq(s, 1, Len(s) - 1)))

\* RiskCalculationEngine::identify_primary_drivers
identify_primary_drivers(self, factors) ==
    LET weights == self.config.category_weights
        weighted == SelectSeq([i \in DOMAIN factors |-> factors[i]],
                              LAMBDA f : f.category \in DOMAIN weights)
        contributions == [i \in DOMAIN weighted |->
                            <<weighted[i].name,
                              FMul(weighted[i].value, weights[weighted[i].category])>>]
        sorted == SortDesc(contributions)
    IN  SubSeq(sorted, 1, IF Len(sorted) < 5 THEN Len(sorted) ELSE 5)

\* calculate_risk, steps 5 to 8 (lines 168-199): the assessment built from the scores
\* and the simulation statistics
BuildAssessment(self, factors, category_scores, raw_score, bayesian_score, stats) ==
    IF self.config.enable_monte_carlo /\ stats.status = "Panic" THEN [status |-> "Panic"]
    ELSE [status |-> "Ok",
          raw_score |-> raw_score,
          bayesian_score |-> bayesian_score,
          seconds_to_midnight |-> score_to_seconds(bayesian_score),
          confidence_interval |->
              IF self.config.enable_monte_carlo
              THEN <<stats.percentile_5, stats.percentile_95>>
              ELSE <<FMul(bayesian_score, <<9, 10>>), FMul(bayesian_score, <<11, 10>>)>>,
          risk_level |-> from_seconds(score_to_seconds(bayesian_score)),
          trend_direction |-> determine_trend(self, factors),
          primary_drivers |-> identify_primary_drivers(self, factors),
          category_scores |-> category_scores,
          monte_carlo_stats |->
              IF self.config.enable_monte_carlo THEN stats ELSE [status |-> "None"]]

\* calculate_risk, steps 3 and 4 (lines 162-170): the Bayesian adjustment and the
\* simulation
AdjustAndSimulate(self, factors, category_scores, raw_score, seed) ==
    BuildAssessment(self, factors, category_scores, raw_score,
                    IF self.config.enable_bayesian_adjustment
                    THEN apply_bayesian_adjustment(self, raw_score, factors)
                    ELSE raw_score,
                    run_monte_carlo_simulation(self, factors, seed))

\* calculate_risk, step 2 (line 159): the weighted score of the category scores
WeighCategories(self, factors, category_scores, seed) ==
    AdjustAndSimulate(self, factors, category_scores,
                      calculate_weighted_score(self, category_scores, seed), seed)

\* calculate_risk, steps 1 to 8 (lines 155-199)
calculate_risk_steps(self, factors, seed) ==
    WeighCategories(self, factors, calculate_category_scores(self, factors), seed)

\* calculate_risk without the empty-input check
calculate_risk_unguarded(self, factors, seed) == calculate_risk_steps(self, factors, seed)

\* RiskCalculationEngine::calculate_risk
calculate_risk(self, factors, seed) ==
    IF factors = <<>> THEN [status |-> "Err", error |-> "Validation"]
    ELSE calculate_risk_steps(self, factors, seed)

\* RiskCalculationEngine::calculate_delta
calculate_delta(current, previous) ==
    current.seconds_to_midnight - previous.seconds_to_midnight

(***************************************************************************)
(* analyzers/consensus.rs                                                  *)
(***************************************************************************)
\* ConsensusConfig::default
ConsensusConfigDefault ==
    [num_analyses |-> 3, max_divergence_seconds |-> 60]

RECURSIVE InsertU32(_, _)
InsertU32(x, s) ==
    IF s = <<>> THEN <<x>>
    ELSE IF x < s[1] THEN <<x>> \o s
    ELSE <<s[1]>> \o InsertU32(x, Tail(s))

\* Vec<u32>::sort_unstable
RECURSIVE SortU32(_)
SortU32(s) ==
    IF s = <<>> THEN <<>>
    ELSE InsertU32(s[Len(s)], SortU32(SubSeq(s, 1, Len(s) - 1)))

RECURSIVE SumU32(_)
SumU32(s) == IF s = <<>> THEN 0 ELSE s[1] + SumU32(Tail(s))

\* the population variance of the u32 values about mean (lines 165-169, 262-266)
Variance(values, mean) ==
    FDiv(FSum([i \in DOMAIN values |->
                 FMul(FSub(<<values[i], 1>>, mean), FSub(<<values[i], 1>>, mean))]),
         <<Len(values), 1>>)

\* calculate_statistics taking the lower-middle element, sorted[(len - 1) / 2]
calculate_statistics_lower_middle(values) ==
    LET mean == FDiv(<<SumU32(values), 1>>, <<Len(values), 1>>)
        sorted == SortU32(values)
    IN  <<mean, FSqrt(Variance(values, mean)), sorted[((Len(sorted) - 1) \div 2) + 1]>>

\* ConsensusAnalyzer::calculate_statistics: <<mean, std_dev, median>>
calculate_statistics(values) ==
    LET mean == FDiv(<<SumU32(values), 1>>, <<Len(values), 1>>)
        std_dev == FSqrt(Variance(values, mean))
        sorted == SortU32(values)
        median == sorted[(Len(sorted) \div 2) + 1]
    IN  <<mean, std_dev, median>>

\* calculate_divergence measuring the largest value from zero
calculate_divergence_from_zero(values) ==
    IF values = <<>> THEN 0
    ELSE CHOOSE m \in {values[i] : i \in DOMAIN values} : \A i \in DOMAIN values : m >= values[i]

\* ConsensusAnalyzer::calculate_divergence
calculate_divergence(values) ==
    LET min == IF values = <<>> THEN 0
               ELSE CHOOSE m \in {values[i] : i \in DOMAIN values} :
                        \A i \in DOMAIN values : m <= values[i]
        max == IF values = <<>> THEN 0
               ELSE CHOOSE m \in {values[i] : i \in DOMAIN values} :
                        \A i \in DOMAIN values : m >= values[i]
    IN  max - min

\* calculate_consensus_confidence without the cap of the penalty at 0.3
calculate_consensus_confidence_uncapped(analyses, std_dev) ==
    LET mean_confidence ==
            FDiv(FSum([i \in DOMAIN analyses |-> to_score(analyses[i].confidence_level)]),
                 <<Len(analyses), 1>>)
        variance_penalty == FDiv(std_dev, <<100, 1>>)
    IN  FMin(FMax(FSub(mean_confidence, variance_penalty), Zero), One)

\* ConsensusAnalyzer::calculate_consensus_confidence
calculate_consensus_confidence(analyses, std_dev) ==
    LET mean_confidence ==
            FDiv(FSum([i \in DOMAIN analyses |-> to_score(analyses[i].confidence_level)]),
                 <<Len(analyses), 1>>)
        variance_penalty == FMin(FDiv(std_dev, <<100, 1>>), <<3, 10>>)
    IN  FMin(FMax(FSub(mean_confidence, variance_penalty), Zero), One)

\* calculate_agreement_level without the cap of the ratio at 1
calculate_agreement_level_uncapped(values, mean) ==
    FSub(One, FDiv(FSqrt(Variance(values, mean)), mean))

\* ConsensusAnalyzer::calculate_agreement_level
calculate_agreement_level(values, mean) ==
    FSub(One, FMin(FDiv(FSqrt(Variance(values, mean)), mean), One))

\* Text is a sequence of characters; char::to_lowercase on the letters used
LowerChar(ch) ==
    CASE ch = "A" -> "a"
      [] ch = "B" -> "b"
      [] ch = "C" -> "c"
      [] OTHER -> ch

\* to_lowercase leaving the text as it is
to_lowercase_unchanged(text) == text

\* str::to_lowercase
to_lowercase(text) == [i \in DOMAIN text |-> LowerChar(text[i])]

\* the items of all lists, analyses in input order and each list front to back
RECURSIVE Flatten(_)
Flatten(lists) == IF lists = <<>> THEN <<>> ELSE lists[1] \o Flatten(Tail(lists))

\* the dedup loop of the merge_* functions: keeps items[i] when keys[i] is not yet seen
RECURSIVE KeepFirstSeen(_, _, _)
KeepFirstSeen(items, keys, seen) ==
    IF items = <<>> THEN <<>>
    ELSE IF keys[1] \in seen
         THEN KeepFirstSeen(Tail(items), Tail(keys), seen)
         ELSE <<items[1]>> \o KeepFirstSeen(Tail(items), Tail(keys), seen \cup {keys[1]})

\* ConsensusAnalyzer::aggregate_risk_factors
aggregate_risk_factors(analyses) ==
    LET names == UNION {DOMAIN analyses[i].risk_factors : i \in DOMAIN analyses}
        reporting(f) == SelectSeq([i \in DOMAIN analyses |-> analyses[i]],
                                  LAMBDA a : f \in DOMAIN a.risk_factors)
    IN  [f \in names |->
            FDiv(FSum([i \in DOMAIN reporting(f) |-> reporting(f)[i].risk_factors[f]]),
                 <<Len(reporting(f)), 1>>)]

\* ConsensusAnalyzer::merge_critical_developments; an entry stands for the
\* formatted string "{event} (Impact: {impact:?}, Escalation: {escalation:.2})"
merge_critical_developments(analyses) ==
    LET devs == Flatten([i \in DOMAIN analyses |-> analyses[i].critical_developments])
        kept == KeepFirstSeen(devs, [i \in DOMAIN devs |-> to_lowercase(devs[i].event)], {})
    IN  [i \in DOMAIN kept |->
            <<kept[i].event, kept[i].impact, kept[i].escalation_potential>>]

\* ConsensusAnalyzer::merge_early_warning_indicators
merge_early_warning_indicators(analyses) ==
    LET items == Flatten([i \in DOMAIN analyses |-> analyses[i].early_warning_indicators])
    IN  KeepFirstSeen(items, [i \in DOMAIN items |-> to_lowercase(items[i])], {})

\* ConsensusAnalyzer::merge_recommendations
merge_recommendations(analyses) ==
    LET items == Flatten([i \in DOMAIN analyses |-> analyses[i].recommendations])
    IN  KeepFirstSeen(items, [i \in DOMAIN items |-> to_lowercase(items[i])], {})

\* ConsensusAnalyzer::build_consensus_summary
build_consensus_summary(analyses) ==
    IF analyses = <<>> THEN "No analyses available for consensus"
    ELSE analyses[1].executive_summary

\* ConsensusAnalyzer::new
ConsensusAnalyzerNew(config) == [config |-> config]

\* build_consensus, lines 110-158: the consensus assembled from the batch, its
\* scaled values, their statistics (mean, std_dev, median) and their divergence;
\* warned records the "High divergence detected in analyses" event of lines 113-119
ConsensusOf(self, analyses, seconds, stats, divergence) ==
    [status |-> "Ok",
     warned |-> divergence > self.config.max_divergence_seconds,
     consensus_seconds |-> stats[3],
     mean_seconds |-> stats[1],
     std_dev |-> stats[2],
     confidence |-> calculate_consensus_confidence(analyses, stats[2]),
     risk_level |-> seconds_to_risk_level(stats[3]),
     risk_factors |-> aggregate_risk_factors(analyses),
     critical_developments |-> merge_critical_developments(analyses),
     early_warning_indicators |-> merge_early_warning_indicators(analyses),
     executive_summary |-> build_consensus_summary(analyses),
     individual_analyses |-> analyses,
     agreement_level |-> calculate_agreement_level(seconds, stats[1]),
     recommendations |-> merge_recommendations(analyses)]

\* build_consensus, line 99: the scaled values of the batch
SecondsToMidnight(analyses) == [i \in DOMAIN analyses |-> analyses[i].seconds_to_midnight]

\* build_consensus, lines 99-110: the statistics and the divergence of the values
SummariseSeconds(self, analyses, seconds) ==
    ConsensusOf(self, analyses, seconds, calculate_statistics(seconds),
                calculate_divergence(seconds))

\* build_consensus after the size check (lines 93-158)
build_consensus_steps(self, analyses) ==
    SummariseSeconds(self, analyses, SecondsToMidnight(analyses))

\* build_consensus rejecting only the empty batch
build_consensus_one_suffices(self, analyses) ==
    IF Len(analyses) < 1 THEN [status |-> "Err", error |-> "Analysis"]
    ELSE build_consensus_steps(self, analyses)

\* ConsensusAnalyzer::build_consensus
build_consensus(self, analyses) ==
    IF Len(analyses) < 2 THEN [status |-> "Err", error |-> "Analysis"]
    ELSE build_consensus_steps(self, analyses)

(***************************************************************************)
(* engines/claude_integration.rs                                           *)
(***************************************************************************)
\* analyze_with_consensus, line 177: let num_analyses = 3
num_analyses == 3

\* analyze_with_consensus, lines 180-215: run i and the runs after it. The outcome
\* of a run is what messages_create and parse_risk_analysis return: kind "ApiError"
\* is Err of messages_create, "ParseError" is Err of parse_risk_analysis, "Ok"
\* carries the parsed analysis. attempted counts the messages_create calls made.
RECURSIVE RunAnalyses(_, _, _)
RunAnalyses(outcomes, i, handles) ==
    IF i > Len(outcomes) THEN [status |-> "Ok", handles |-> handles, attempted |-> i - 1]
    ELSE IF outcomes[i].kind = "ApiError"
         THEN [status |-> "Err", error |-> "ClaudeApi", attempted |-> i]
    ELSE IF outcomes[i].kind = "ParseError" THEN RunAnalyses(outcomes, i + 1, handles)
    ELSE RunAnalyses(outcomes, i + 1, Append(handles, outcomes[i].analysis))

\* analyze_with_consensus, lines 217-277: the size check, the consensus and the
\* assessment made from it
ConsensusOfRuns(consensus_analyzer, runs) ==
    IF runs.status = "Err" THEN runs
    ELSE IF Len(runs.handles) < 2
         THEN [status |-> "Err", error |-> "Analysis", attempted |-> runs.attempted]
    ELSE [status |-> "Ok",
          attempted |-> runs.attempted,
          analyses |-> runs.handles,
          consensus |-> build_consensus(consensus_analyzer, runs.handles)]

\* ClaudeIntegrationEngine::analyze_with_consensus
analyze_with_consensus(consensus_analyzer, outcomes) ==
    ConsensusOfRuns(consensus_analyzer, RunAnalyses(outcomes, 1, <<>>))

(***************************************************************************)
(* Bounds and input sets                                                   *)
(***************************************************************************)
MaxRequestsPerMinute == 2   \* requests_per_minute of the modelled RateLimiter
MaxTokensPerMinute == 5     \* tokens_per_minute of the modelled RateLimiter
MaxRequestTokens == 2       \* largest token estimate passed to acquire
MaxFactors == 3       \* longest factor sequence passed to calculate_risk
MaxIterations == 4    \* sweep iteration count of the modelled configurations
MaxAnalyses == 3      \* largest batch passed to build_consensus
ScoreDen == 144       \* scores passed to score_to_seconds start from the grid k / ScoreDen
MaxGap == 3           \* ... and lie up to MaxGap half-second steps above a grid point

\* all sequences over S of length 0..n
SeqsUpTo(S, n) == UNION {[1..k -> S] : k \in 0..n}

\* a category weight table that sums to 0.5
HalfWeights == [c \in {"RegionalConflicts", "EconomicFactors"} |->
                   IF c = "RegionalConflicts" THEN <<2, 5>> ELSE <<1, 10>>]

\* RiskCalculationConfig::default() with the iteration count lowered to MaxIterations
SweepConfig == [RiskCalculationConfigDefault EXCEPT !.monte_carlo_iterations = MaxIterations]

\* the configurations engines are constructed with
Configs ==
    {SweepConfig,
     [SweepConfig EXCEPT !.enable_monte_carlo = FALSE],
     [SweepConfig EXCEPT !.enable_bayesian_adjustment = FALSE],
     [SweepConfig EXCEPT !.monte_carlo_iterations = 0],
     [SweepConfig EXCEPT !.monte_carlo_iterations = 1],
     [SweepConfig EXCEPT !.category_weights = HalfWeights],
     [SweepConfig EXCEPT !.bayesian_prior_strength = <<2, 1>>]}

\* values handed to RiskFactor::new: -0.5, 0, 0.5, 1, 1.5
FactorValues == {<<-1, 2>>, <<0, 1>>, <<1, 2>>, <<1, 1>>, <<3, 2>>}

\* the factors calculate_risk is called with
FactorPool ==
    <<RiskFactorNew("RegionalConflicts", "RegionalConflicts", <<1, 1>>, "VeryHigh"),
      set_trend(RiskFactorNew("EconomicFactors", "EconomicFactors", <<1, 1>>, "VeryLow"),
                "Stable"),
      RiskFactorNew("NuclearArsenalChanges", "NuclearArsenalChanges", <<3, 10>>, "VeryHigh"),
      RiskFactorNew("ArmsControlBreakdown", "ArmsControlBreakdown", <<1, 2>>, "High"),
      set_trend(RiskFactorNew("TechnicalIncidents", "TechnicalIncidents", <<3, 2>>, "High"),
                "Uncertain"),
      set_trend(RiskFactorNew("RegionalConflicts", "RegionalConflicts", <<3, 10>>, "High"),
                "Deteriorating"),
      set_trend(RiskFactorNew("EconomicFactors", "EconomicFactors", <<0, 1>>, "Moderate"),
                "Improving")>>

\* the factor sequences calculate_risk is called with: up to MaxFactors factors of
\* the pool, listed in pool order or in reverse pool order
FactorLists ==
    LET picks == {ix \in SeqsUpTo(DOMAIN FactorPool, MaxFactors) :
                     \/ \A i \in 1..(Len(ix) - 1) : ix[i] <= ix[i + 1]
                     \/ \A i \in 1..(Len(ix) - 1) : ix[i] >= ix[i + 1]}
    IN  {[i \in DOMAIN ix |-> FactorPool[ix[i]]] : ix \in picks}

\* the score that moves the clock by half a second
HalfSecond == Frac(1, 2 * MAX_SECONDS_TO_MIDNIGHT)

\* the scores score_to_seconds is called with: a grid over [0,1], and next to each
\* grid point scores that differ from it by less than the width of one second
ScoreGrid ==
    {s \in {FAdd(Frac(k, ScoreDen), FMul(<<j, 1>>, HalfSecond)) :
                k \in 0..ScoreDen, j \in 0..MaxGap} : In01(s)}

Idle == [op |-> "idle"]

(***************************************************************************)
(* Operations on the engine                                                *)
(***************************************************************************)
\* RiskCalculationEngine::new(config): the caller replaces its engine
New(config) ==
    /\ call.op = "idle"
    /\ engine' = RiskCalculationEngineNew(config)
    /\ call' = [op |-> "new", config |-> config, status |-> "Ok"]
    /\ UNCHANGED <<analyzer, threads, limiter>>

\* engine.calculate_risk(&factors), its maps hashing with the keys seed
CalculateRisk(factors, seed) ==
    /\ call.op = "idle"
    /\ call' = [op |-> "calculate_risk", factors |-> factors,
                ret |-> calculate_risk(engine, factors, seed)]
    /\ UNCHANGED <<engine, analyzer, threads, limiter>>

\* engine.score_to_seconds(score)
ScoreToSeconds(score) ==
    /\ call.op = "idle"
    /\ call' = [op |-> "score_to_seconds", score |-> score, ret |-> score_to_seconds(score)]
    /\ UNCHANGED <<engine, analyzer, threads, limiter>>

\* RiskFactor::new(category, name, value, confidence)
NewRiskFactor(category, value, confidence) ==
    /\ call.op = "idle"
    /\ call' = [op |-> "RiskFactor::new", value |-> value, status |-> "Ok",
                ret |-> RiskFactorNew(category, category, value, confidence)]
    /\ UNCHANGED <<engine, analyzer, threads, limiter>>

\* the tasks that call acquire on the shared RateLimiter
Tasks == {"t1", "t2"}

\* a task that is not inside acquire
IdleTask == [pc |-> "idle", tokens |-> 0, requests |-> 0, current_tokens |-> 0]

\* RateLimiter::new; elapsed is window_start.elapsed() in seconds, holder the task
\* that holds the window_start mutex
RateLimiterNew(requests_per_minute, tokens_per_minute) ==
    [requests_per_minute |-> requests_per_minute,
     tokens_per_minute |-> tokens_per_minute,
     request_count |-> 0,
     token_count |-> 0,
     elapsed |-> 0,
     holder |-> "none",
     tasks |-> [t \in Tasks |-> IdleTask]]

\* the concurrent callers sharing the engine and the analyzer by reference
Callers == {"a", "b"}

\* the frame of a caller that is not inside a call
IdleFrame ==
    [op |-> "idle", pc |-> "idle", factors |-> <<>>, seed |-> 0, analyses |-> <<>>,
     category_scores |-> <<>>, raw_score |-> Zero, bayesian_score |-> Zero,
     stats |-> [status |-> "None"], seconds |-> <<>>, statistics |-> <<Zero, Zero, 0>>,
     divergence |-> 0, ret |-> [status |-> "None"]]

\* the caller drops the outcome of the last call
Return ==
    /\ call.op # "idle"
    /\ call' = Idle
    /\ UNCHANGED <<engine, analyzer, threads, limiter>>

Init ==
    /\ engine = RiskCalculationEngineNew(SweepConfig)
    /\ analyzer = ConsensusAnalyzerNew(ConsensusConfigDefault)
    /\ call = Idle
    /\ threads = [t \in Callers |-> IdleFrame]
    /\ limiter = RateLimiterNew(MaxRequestsPerMinute, MaxTokensPerMinute)

Next ==
    \/ \E config \in Configs : New(config)
    \/ \E factors \in FactorLists, seed \in HashSeeds :
          CalculateRisk(factors, seed)
    \/ \E score \in ScoreGrid : ScoreToSeconds(score)
    \/ \E c \in {"RegionalConflicts", "EconomicPressure"}, v \in FactorValues,
          k \in ConfidenceLevel : NewRiskFactor(c, v, k)
    \/ Return

Spec == Init /\ [][Next]_vars

(***************************************************************************)
(* Operations on the consensus analyzer and the risk-level functions       *)
(***************************************************************************)
\* tests::create_test_analysis of consensus.rs
create_test_analysis(seconds) ==
    [seconds_to_midnight |-> seconds,
     confidence_level |-> "High",
     trend_direction |-> "Stable",
     risk_factors |-> [f \in {} |-> Zero],
     critical_developments |-> <<>>,
     early_warning_indicators |-> <<>>,
     executive_summary |-> "Test summary",
     detailed_analysis |-> "Test analysis",
     recommendations |-> <<>>]

\* scaled values of the analyses of a batch
AnalysisSeconds == {0, 50, 88, 90, 95, 100, 150, 1000}

\* two analyses with qualitative lists that overlap up to letter case
RichAnalyses ==
    {[create_test_analysis(90) EXCEPT
        !.confidence_level = "VeryHigh",
        !.risk_factors = [f \in {"regional_conflicts", "economic_pressure"} |->
                             IF f = "regional_conflicts" THEN <<4, 5>> ELSE <<1, 5>>],
        !.critical_developments =
            <<[event |-> <<"A", "b">>, impact |-> "High", escalation_potential |-> <<1, 2>>]>>,
        !.early_warning_indicators = << <<"A", "b">>, <<"c">> >>,
        !.recommendations = << <<"a">> >>],
     [create_test_analysis(95) EXCEPT
        !.confidence_level = "Low",
        !.executive_summary = "Other summary",
        !.risk_factors = [f \in {"regional_conflicts"} |-> <<2, 5>>],
        !.critical_developments =
            <<[event |-> <<"a", "B">>, impact |-> "Critical",
               escalation_potential |-> <<9, 10>>]>>,
        !.early_warning_indicators = << <<"a", "B">>, <<"C">>, <<"b">> >>,
        !.recommendations = << <<"A">>, <<"a">> >>]}

\* the analyses build_consensus is called with
AnalysisPool == {create_test_analysis(s) : s \in AnalysisSeconds} \cup RichAnalyses

\* the configurations analyzers are constructed with
ConsensusConfigs ==
    {ConsensusConfigDefault, [ConsensusConfigDefault EXCEPT !.max_divergence_seconds = 100]}

\* ConsensusAnalyzer::new(config): the caller replaces its analyzer
NewAnalyzer(config) ==
    /\ call.op = "idle"
    /\ analyzer' = ConsensusAnalyzerNew(config)
    /\ call' = [op |-> "ConsensusAnalyzer::new", config |-> config, status |-> "Ok"]
    /\ UNCHANGED <<engine, threads, limiter>>

\* analyzer.build_consensus(analyses)
BuildConsensus(analyses) ==
    /\ call.op = "idle"
    /\ call' = [op |-> "build_consensus", analyses |-> analyses,
                ret |-> build_consensus(analyzer, analyses)]
    /\ UNCHANGED <<engine, analyzer, threads, limiter>>

\* RiskLevel::from_seconds(seconds)
FromSeconds(seconds) ==
    /\ call.op = "idle"
    /\ call' = [op |-> "from_seconds", seconds |-> seconds, ret |-> from_seconds(seconds)]
    /\ UNCHANGED <<engine, analyzer, threads, limiter>>

\* analyzer.seconds_to_risk_level(seconds)
SecondsToRiskLevel(seconds) ==
    /\ call.op = "idle"
    /\ call' = [op |-> "seconds_to_risk_level", seconds |-> seconds,
                ret |-> seconds_to_risk_level(seconds)]
    /\ UNCHANGED <<engine, analyzer, threads, limiter>>

\* Assessment::new(seconds, summary).risk_level()
AssessmentRiskLevel(seconds) ==
    /\ call.op = "idle"
    /\ call' = [op |-> "risk_level", seconds |-> seconds,
                ret |-> risk_level(AssessmentNew(seconds))]
    /\ UNCHANGED <<engine, analyzer, threads, limiter>>

\* the outcomes of the runs of analyze_with_consensus
RunOutcomes ==
    {[kind |-> "ApiError"], [kind |-> "ParseError"]}
        \cup {[kind |-> "Ok", analysis |-> create_test_analysis(s)] : s \in {88, 90, 95}}

\* analyze_with_consensus(data, previous_assessment) on the engine holding the
\* analyzer, its runs ending as outcomes says
AnalyzeWithConsensus(outcomes) ==
    /\ call.op = "idle"
    /\ call' = [op |-> "analyze_with_consensus", outcomes |-> outcomes,
                ret |-> analyze_with_consensus(analyzer, outcomes)]
    /\ UNCHANGED <<engine, analyzer, threads, limiter>>

ConsensusNext ==
    \/ \E config \in ConsensusConfigs : NewAnalyzer(config)
    \/ \E analyses \in SeqsUpTo(AnalysisPool, MaxAnalyses) : BuildConsensus(analyses)
    \/ \E seconds \in 0..MAX_SECONDS_TO_MIDNIGHT : FromSeconds(seconds)
    \/ \E seconds \in 0..MAX_SECONDS_TO_MIDNIGHT : SecondsToRiskLevel(seconds)
    \/ \E seconds \in 0..MAX_SECONDS_TO_MIDNIGHT : AssessmentRiskLevel(seconds)
    \/ \E outcomes \in [1..num_analyses -> RunOutcomes] : AnalyzeWithConsensus(outcomes)
    \/ Return

ConsensusSpec == Init /\ [][ConsensusNext]_vars

(***************************************************************************)
(* Concurrent callers: calculate_risk(&self, ..) and build_consensus(&self,*)
(* ..) borrow the engine and the analyzer shared; every let binding of a   *)
(* call lives in the frame of its caller.  Each action is one step of one  *)
(* call, so that the steps of different calls interleave.                  *)
(***************************************************************************)
\* let name = value in the body of the call of caller t, visible to every caller
StoreShared(frames, t, name, value) ==
    [o \in DOMAIN frames |-> [frames[o] EXCEPT ![name] = value]]

\* let name = value in the body of the call of caller t
StoreLocal(frames, t, name, value) == [frames EXCEPT ![t][name] = value]

\* the call of caller t moves on to the step pc
Goto(frames, t, pc) == [frames EXCEPT ![t].pc = pc]

\* the factor sequences of the concurrent calls
SharedFactorLists ==
    {<<>>,
     <<FactorPool[1]>>,
     <<FactorPool[4]>>,
     <<FactorPool[3], FactorPool[1], FactorPool[7]>>}

\* the batches of the concurrent calls
SharedBatches ==
    {<<create_test_analysis(90)>>,
     <<create_test_analysis(88), create_test_analysis(95)>>,
     <<create_test_analysis(50), create_test_analysis(150), create_test_analysis(100)>>}

\* caller t enters engine.calculate_risk(&factors): the emptiness check of lines 149-153
CallCalculateRisk(t, factors, seed) ==
    /\ threads[t].op = "idle"
    /\ threads' =
           [threads EXCEPT ![t] =
               IF factors = <<>>
               THEN [IdleFrame EXCEPT !.op = "calculate_risk", !.pc = "done",
                                       !.factors = factors, !.seed = seed,
                                       !.ret = [status |-> "Err", error |-> "Validation"]]
               ELSE [IdleFrame EXCEPT !.op = "calculate_risk", !.pc = "category_scores",
                                       !.factors = factors, !.seed = seed]]
    /\ UNCHANGED <<engine, analyzer, call, limiter>>

\* step 1 of calculate_risk in the call of caller t
ScoreCategories(t) ==
    /\ threads[t].pc = "category_scores"
    /\ threads' = Goto(StoreLocal(threads, t, "category_scores",
                                  calculate_category_scores(engine, threads[t].factors)),
                       t, "raw_score")
    /\ UNCHANGED <<engine, analyzer, call, limiter>>

\* step 2 of calculate_risk in the call of caller t
WeighScores(t) ==
    /\ threads[t].pc = "raw_score"
    /\ threads' = Goto(StoreLocal(threads, t, "raw_score",
                                  calculate_weighted_score(engine, threads[t].category_scores,
                                                           threads[t].seed)),
                       t, "bayesian_score")
    /\ UNCHANGED <<engine, analyzer, call, limiter>>

\* step 3 of calculate_risk in the call of caller t
AdjustScore(t) ==
    /\ threads[t].pc = "bayesian_score"
    /\ threads' = Goto(StoreLocal(threads, t, "bayesian_score",
                                  IF engine.config.enable_bayesian_adjustment
                                  THEN apply_bayesian_adjustment(engine, threads[t].raw_score,
                                                                 threads[t].factors)
                                  ELSE threads[t].raw_score),
                       t, "stats")
    /\ UNCHANGED <<engine, analyzer, call, limiter>>

\* step 4 of calculate_risk in the call of caller t
Simulate(t) ==
    /\ threads[t].pc = "stats"
    /\ threads' = Goto(StoreLocal(threads, t, "stats",
                                  run_monte_carlo_simulation(engine, threads[t].factors,
                                                             threads[t].seed)),
                       t, "result")
    /\ UNCHANGED <<engine, analyzer, call, limiter>>

\* steps 5 to 8 of calculate_risk in the call of caller t, and its result
Assess(t) ==
    /\ threads[t].pc = "result"
    /\ threads' = Goto(StoreLocal(threads, t, "ret",
                                  BuildAssessment(engine, threads[t].factors,
                                                  threads[t].category_scores,
                                                  threads[t].raw_score,
                                                  threads[t].bayesian_score,
                                                  threads[t].stats)),
                       t, "done")
    /\ UNCHANGED <<engine, analyzer, call, limiter>>

\* caller t enters analyzer.build_consensus(analyses): the size check of lines 87-91
CallBuildConsensus(t, analyses) ==
    /\ threads[t].op = "idle"
    /\ threads' =
           [threads EXCEPT ![t] =
               IF Len(analyses) < 2
               THEN [IdleFrame EXCEPT !.op = "build_consensus", !.pc = "done",
                                       !.analyses = analyses,
                                       !.ret = [status |-> "Err", error |-> "Analysis"]]
               ELSE [IdleFrame EXCEPT !.op = "build_consensus", !.pc = "seconds",
                                       !.analyses = analyses]]
    /\ UNCHANGED <<engine, analyzer, call, limiter>>

\* lines 99-110 of build_consensus in the call of caller t
ComputeStatistics(t) ==
    /\ threads[t].pc = "seconds"
    /\ LET seconds == SecondsToMidnight(threads[t].analyses)
       IN  threads' =
               Goto(StoreLocal(StoreLocal(StoreLocal(threads, t, "seconds", seconds),
                                          t, "statistics", calculate_statistics(seconds)),
                               t, "divergence", calculate_divergence(seconds)),
                    t, "consensus")
    /\ UNCHANGED <<engine, analyzer, call, limiter>>

\* lines 111-158 of build_consensus in the call of caller t, and its result
MergeAnalyses(t) ==
    /\ threads[t].pc = "consensus"
    /\ threads' = Goto(StoreLocal(threads, t, "ret",
                                  ConsensusOf(analyzer, threads[t].analyses,
                                              threads[t].seconds, threads[t].statistics,
                                              threads[t].divergence)),
                       t, "done")
    /\ UNCHANGED <<engine, analyzer, call, limiter>>

\* caller t takes the result of its call
ReturnTo(t) ==
    /\ threads[t].pc = "done"
    /\ threads' = [threads EXCEPT ![t] = IdleFrame]
    /\ UNCHANGED <<engine, analyzer, call, limiter>>

ConcurrentNext ==
    \/ \E t \in Callers, factors \in SharedFactorLists, seed \in HashSeeds :
          CallCalculateRisk(t, factors, seed)
    \/ \E t \in Callers : ScoreCategories(t)
    \/ \E t \in Callers : WeighScores(t)
    \/ \E t \in Callers : AdjustScore(t)
    \/ \E t \in Callers : Simulate(t)
    \/ \E t \in Callers : Assess(t)
    \/ \E t \in Callers, analyses \in SharedBatches : CallBuildConsensus(t, analyses)
    \/ \E t \in Callers : ComputeStatistics(t)
    \/ \E t \in Callers : MergeAnalyses(t)
    \/ \E t \in Callers : ReturnTo(t)

ConcurrentSpec == Init /\ [][ConcurrentNext]_vars

(***************************************************************************)
(* analyzers/claude_client.rs: RateLimiter::acquire, one action per atomic *)
(* operation of a task, so that the operations of concurrent acquire calls *)
(* interleave.                                                             *)
(***************************************************************************)
\* Duration::from_secs(60), the length of a window
WINDOW_SECONDS == 60

\* the task t of the limiter moves to pc
At(t, pc) == [limiter EXCEPT !.tasks[t].pc = pc]

\* a task calls rate_limiter.acquire(tokens)
Acquire(t, tokens) ==
    /\ limiter.tasks[t].pc = "idle"
    /\ limiter' = [limiter EXCEPT !.tasks[t] = [IdleTask EXCEPT !.pc = "lock", !.tokens = tokens]]
    /\ UNCHANGED <<engine, analyzer, call, threads>>

\* line 261: self.window_start.lock(), and the elapsed() test of line 262
LockWindow(t) ==
    /\ limiter.tasks[t].pc = "lock"
    /\ limiter.holder = "none"
    /\ limiter' = [At(t, IF limiter.elapsed >= WINDOW_SECONDS
                         THEN "reset_requests" ELSE "unlock")
                       EXCEPT !.holder = t]
    /\ UNCHANGED <<engine, analyzer, call, threads>>

\* line 263: self.request_count.store(0)
ResetRequests(t) ==
    /\ limiter.tasks[t].pc = "reset_requests"
    /\ limiter' = [At(t, "reset_tokens") EXCEPT !.request_count = 0]
    /\ UNCHANGED <<engine, analyzer, call, threads>>

\* line 264: self.token_count.store(0)
ResetTokens(t) ==
    /\ limiter.tasks[t].pc = "reset_tokens"
    /\ limiter' = [At(t, "reset_window") EXCEPT !.token_count = 0]
    /\ UNCHANGED <<engine, analyzer, call, threads>>

\* line 265: *window_start = Instant::now()
ResetWindow(t) ==
    /\ limiter.tasks[t].pc = "reset_window"
    /\ limiter' = [At(t, "unlock") EXCEPT !.elapsed = 0]
    /\ UNCHANGED <<engine, analyzer, call, threads>>

\* line 267: the guard is dropped
UnlockWindow(t) ==
    /\ limiter.tasks[t].pc = "unlock"
    /\ limiter' = [At(t, "load_requests") EXCEPT !.holder = "none"]
    /\ UNCHANGED <<engine, analyzer, call, threads>>

\* line 269: let requests = self.request_count.load()
LoadRequests(t) ==
    /\ limiter.tasks[t].pc = "load_requests"
    /\ limiter' = [At(t, "load_tokens") EXCEPT !.tasks[t].requests = limiter.request_count]
    /\ UNCHANGED <<engine, analyzer, call, threads>>

\* line 270: let current_tokens = self.token_count.load()
LoadTokens(t) ==
    /\ limiter.tasks[t].pc = "load_tokens"
    /\ limiter' = [At(t, "check") EXCEPT !.tasks[t].current_tokens = limiter.token_count]
    /\ UNCHANGED <<engine, analyzer, call, threads>>

\* lines 272-274: the test on the loaded counts; requests and current_tokens are
\* locals of one round of the loop and are not read after the test
CheckLimits(t) ==
    /\ limiter.tasks[t].pc = "check"
    /\ limiter' =
           [limiter EXCEPT !.tasks[t] =
               [IdleTask EXCEPT
                   !.tokens = limiter.tasks[t].tokens,
                   !.pc = IF /\ limiter.tasks[t].requests < limiter.requests_per_minute
                             /\ limiter.tasks[t].current_tokens + limiter.tasks[t].tokens
                                    < limiter.tokens_per_minute
                          THEN "add_request" ELSE "sleep"]]
    /\ UNCHANGED <<engine, analyzer, call, threads>>

\* line 275: self.request_count.fetch_add(1); the u32 counters stay far from
\* wrapping under the modelled limits
AddRequest(t) ==
    /\ limiter.tasks[t].pc = "add_request"
    /\ limiter' = [At(t, "add_tokens") EXCEPT !.request_count = limiter.request_count + 1]
    /\ UNCHANGED <<engine, analyzer, call, threads>>

\* lines 276-277: self.token_count.fetch_add(tokens); return Ok(())
AddTokens(t) ==
    /\ limiter.tasks[t].pc = "add_tokens"
    /\ limiter' = [limiter EXCEPT
                       !.token_count = limiter.token_count + limiter.tasks[t].tokens,
                       !.tasks[t] = IdleTask]
    /\ UNCHANGED <<engine, analyzer, call, threads>>

\* line 281: tokio::time::sleep(100 ms), then the next round of the loop
SleepAndRetry(t) ==
    /\ limiter.tasks[t].pc = "sleep"
    /\ limiter' = At(t, "lock")
    /\ UNCHANGED <<engine, analyzer, call, threads>>

\* time passes until window_start.elapsed() reaches a full window; the code reads
\* elapsed() only through the test elapsed() >= 60 s, so a shorter wait changes nothing
Tick ==
    /\ limiter.elapsed < WINDOW_SECONDS
    /\ limiter' = [limiter EXCEPT !.elapsed = WINDOW_SECONDS]
    /\ UNCHANGED <<engine, analyzer, call, threads>>

RateLimiterNext ==
    \/ \E t \in Tasks, tokens \in 1..MaxRequestTokens : Acquire(t, tokens)
    \/ \E t \in Tasks : LockWindow(t)
    \/ \E t \in Tasks : ResetRequests(t)
    \/ \E t \in Tasks : ResetTokens(t)
    \/ \E t \in Tasks : ResetWindow(t)
    \/ \E t \in Tasks : UnlockWindow(t)
    \/ \E t \in Tasks : LoadRequests(t)
    \/ \E t \in Tasks : LoadTokens(t)
    \/ \E t \in Tasks : CheckLimits(t)
    \/ \E t \in Tasks : AddRequest(t)
    \/ \E t \in Tasks : AddTokens(t)
    \/ \E t \in Tasks : SleepAndRetry(t)
    \/ Tick

RateLimiterSpec == Init /\ [][RateLimiterNext]_vars

(***************************************************************************)
(* Properties                                                              *)
(***************************************************************************)
SecondsOf(analyses) == [i \in DOMAIN analyses |-> analyses[i].seconds_to_midnight]

CountBelow(values, m) == Cardinality({i \in DOMAIN values : values[i] < m})

CountAbove(values, m) == Cardinality({i \in DOMAIN values : values[i] > m})

ValuesIn01(factors) == \A i \in DOMAIN factors : In01(factors[i].value)

\* the weights of the table sum to 1.0 within 0.001
WeightsSumToOne(weights) ==
    LET cats == CategoriesIn(DOMAIN weights)
        sum == FSum([i \in DOMAIN cats |-> weights[cats[i]]])
    IN  FLe(<<999, 1000>>, sum) /\ FLe(sum, <<1001, 1000>>)

\* C1: RiskLevel::from_seconds(v) follows the closed-open intervals [0,100) Critical,
\* [100,200) Severe, [200,400) High, [400,600) Moderate, [600,900) Low, and
\* Minimal from 900 on, for every v in 0..1440.
C1_ClosedOpenIntervals ==
    call.op = "from_seconds" =>
        LET v == call.seconds
        IN  /\ (call.ret = "Critical") = (0 <= v /\ v < 100)
            /\ (call.ret = "Severe") = (100 <= v /\ v < 200)
            /\ (call.ret = "High") = (200 <= v /\ v < 400)
            /\ (call.ret = "Moderate") = (400 <= v /\ v < 600)
            /\ (call.ret = "Low") = (600 <= v /\ v < 900)
            /\ (call.ret = "Minimal") = (v >= 900)

\* C2: every place that computes the risk-level bucket names the same bucket:
\* seconds_to_risk_level(v), Assessment::risk_level() for seconds_to_midnight = v
\* and the risk level of a consensus all agree with RiskLevel::from_seconds.
C2_SameBucketEverywhere ==
    /\ call.op \in {"seconds_to_risk_level", "risk_level"} =>
           call.ret = from_seconds(call.seconds)
    /\ (call.op = "build_consensus" /\ call.ret.status = "Ok") =>
           call.ret.risk_level = from_seconds(call.ret.consensus_seconds)

\* C3 as claimed: consensus_seconds is the middle element of the sorted values for
\* an odd-length batch and the lower-middle element for an even-length batch.
C3_MedianLowerMiddle ==
    (call.op = "build_consensus" /\ call.ret.status = "Ok") =>
        LET values == SecondsOf(call.analyses)
            m == call.ret.consensus_seconds
        IN  /\ \E i \in DOMAIN values : values[i] = m
            /\ CountBelow(values, m) <= (Len(values) - 1) \div 2
            /\ CountAbove(values, m) <= Len(values) \div 2

\* C3 as amended: consensus_seconds is the middle element of the sorted values for
\* an odd-length batch and the upper-middle element (index len / 2 of the sorted
\* values, counting from 0) for an even-length batch; [90, 95, 88] gives 90.
C3_MedianUpperMiddle ==
    (call.op = "build_consensus" /\ call.ret.status = "Ok") =>
        LET values == SecondsOf(call.analyses)
            m == call.ret.consensus_seconds
        IN  /\ \E i \in DOMAIN values : values[i] = m
            /\ CountBelow(values, m) <= Len(values) \div 2
            /\ CountAbove(values, m) <= (Len(values) - 1) \div 2
            /\ values = <<90, 95, 88>> => m = 90

\* an even-length batch whose two middle values differ has been reduced
C3_Witness ==
    /\ call.op = "build_consensus"
    /\ call.ret.status = "Ok"
    /\ SecondsOf(call.analyses) = <<88, 95>>
    /\ call.ret.consensus_seconds = 95

\* C4: calculate_risk on an empty factor sequence returns an error, never a
\* result; on a non-empty sequence the empty-input error is not raised.
C4_EmptyInputError ==
    call.op = "calculate_risk" =>
        /\ call.factors = <<>> =>
               (call.ret.status = "Err" /\ call.ret.error = "Validation")
        /\ call.factors # <<>> => call.ret.status # "Err"

\* calculate_risk has been called with no factors
C4_Witness ==
    /\ call.op = "calculate_risk"
    /\ call.factors = <<>>
    /\ call.ret.status = "Err"

\* C5: build_consensus fails exactly when the batch holds fewer than 2 analyses
\* and returns a ConsensusAnalysis for every batch of 2 or more.
C5_InsufficientAnalyses ==
    call.op = "build_consensus" =>
        /\ (call.ret.status = "Err") = (Len(call.analyses) < 2)
        /\ Len(call.analyses) >= 2 => call.ret.status = "Ok"
        /\ call.ret.status = "Err" => call.ret.error = "Analysis"

\* build_consensus has been called with a single analysis
C5_Witness ==
    /\ call.op = "build_consensus"
    /\ Len(call.analyses) = 1
    /\ call.ret.status = "Err"

\* C6: for every non-empty factor set with values in [0,1] and every mix of
\* confidence levels, the raw_score and bayesian_score of the result lie in [0,1].
C6_ScoresInUnitInterval ==
    (/\ call.op = "calculate_risk"
     /\ call.factors # <<>>
     /\ ValuesIn01(call.factors)
     /\ call.ret.status = "Ok") =>
        /\ In01(call.ret.raw_score)
        /\ In01(call.ret.bayesian_score)

\* a result for factors of differing confidence whose adjusted score differs from
\* the raw score of 1.0
C6_Witness ==
    /\ call.op = "calculate_risk"
    /\ call.ret.status = "Ok"
    /\ ValuesIn01(call.factors)
    /\ \E i, j \in DOMAIN call.factors :
           call.factors[i].confidence # call.factors[j].confidence
    /\ call.ret.raw_score = One
    /\ call.ret.bayesian_score # One

\* C7: constructing an engine with a weight table that does not sum to 1.0 within
\* 0.001 is rejected; no engine holding such a table can be obtained.
C7_InvalidWeightsRejected ==
    /\ WeightsSumToOne(engine.config.category_weights)
    /\ (call.op = "new" /\ ~WeightsSumToOne(call.config.category_weights)) =>
           call.status = "Err"

\* C8: every RiskFactor the constructor produces has its value in [0,1]: a value
\* outside [0,1] is rejected or clamped, never stored as given.
C8_FactorValueInUnitInterval ==
    call.op = "RiskFactor::new" =>
        \/ call.status = "Err"
        \/ In01(call.ret.value)

\* C9 as claimed: for scores a < b in [0,1], score_to_seconds(a) > score_to_seconds(b).
C9_StrictlyDecreasing ==
    call.op = "score_to_seconds" =>
        \A b \in ScoreGrid :
            FLt(call.score, b) => call.ret > score_to_seconds(b)

\* C9 as amended: for scores a < b in [0,1], score_to_seconds(a) >= score_to_seconds(b):
\* the scaled value never increases with the score.
C9_NonIncreasing ==
    call.op = "score_to_seconds" =>
        \A b \in ScoreGrid :
            FLt(call.score, b) => call.ret >= score_to_seconds(b)

\* score_to_seconds has been applied to a score that has a larger score with the
\* same scaled value and a larger score with a smaller one
C9_Witness ==
    /\ call.op = "score_to_seconds"
    /\ \E b \in ScoreGrid : FLt(call.score, b) /\ score_to_seconds(b) = call.ret
    /\ \E b \in ScoreGrid : FLt(call.score, b) /\ score_to_seconds(b) < call.ret

\* seconds is 1440 * (1 - score) rounded to the nearest integer, halves upwards
NearestSecond(seconds, score) ==
    LET exact == FMul(<<MAX_SECONDS_TO_MIDNIGHT, 1>>, FSub(One, score))
        diff == FSub(<<seconds, 1>>, exact)
    IN  FLt(<<-1, 2>>, diff) /\ FLe(diff, <<1, 2>>)

\* C10: score_to_seconds(s) = round(1440 * (1 - s)) for every s in [0,1], so it
\* lies in 0..1440, with 0 -> 1440, 1 -> 0 and 0.5 -> 720; every
\* seconds_to_midnight returned by calculate_risk is at most 1440.
C10_ScaleFormula ==
    /\ call.op = "score_to_seconds" =>
           /\ NearestSecond(call.ret, call.score)
           /\ call.ret \in 0..MAX_SECONDS_TO_MIDNIGHT
           /\ call.score = Zero => call.ret = 1440
           /\ call.score = One => call.ret = 0
           /\ call.score = <<1, 2>> => call.ret = 720
    /\ (call.op = "calculate_risk" /\ call.ret.status = "Ok") =>
           /\ call.ret.seconds_to_midnight <= MAX_SECONDS_TO_MIDNIGHT
           /\ In01(call.ret.bayesian_score) =>
                  NearestSecond(call.ret.seconds_to_midnight, call.ret.bayesian_score)

\* score_to_seconds has rounded a half: 1440 * (1 - score) = 718.5 gave 719
C10_Witness ==
    /\ call.op = "score_to_seconds"
    /\ call.score = FAdd(<<1, 2>>, FMul(<<3, 1>>, HalfSecond))
    /\ call.ret = 719

\* C11: the confidence interval (lower, upper) of every result computed from
\* factors with values in [0,1] satisfies 0 <= lower <= upper <= 1, with the
\* simulation enabled (p5, p95) and disabled (adjusted * 0.9, adjusted * 1.1).
C11_IntervalInUnitSquare ==
    (call.op = "calculate_risk" /\ call.ret.status = "Ok" /\ ValuesIn01(call.factors)) =>
        LET lower == call.ret.confidence_interval[1]
            upper == call.ret.confidence_interval[2]
        IN  FLe(Zero, lower) /\ FLe(lower, upper) /\ FLe(upper, One)

AllVeryHigh(factors) == \A i \in DOMAIN factors : factors[i].confidence = "VeryHigh"

\* C12: if every factor has confidence VeryHigh, the Bayesian-adjusted score equals
\* the raw score exactly, for every raw score and every prior strength.
C12_IdentityAtFullConfidence ==
    (call.op = "calculate_risk" /\ call.ret.status = "Ok" /\ AllVeryHigh(call.factors)) =>
        call.ret.bayesian_score = call.ret.raw_score

\* an adjusted result for VeryHigh factors only, with a raw score strictly between
\* the baseline and 1, under a prior strength other than the default
C12_Witness ==
    /\ call.op = "calculate_risk"
    /\ call.ret.status = "Ok"
    /\ AllVeryHigh(call.factors)
    /\ engine.config.enable_bayesian_adjustment
    /\ engine.config.bayesian_prior_strength = <<2, 1>>
    /\ FLt(engine.historical_baseline, call.ret.raw_score)
    /\ FLt(call.ret.raw_score, One)

\* C13: the agreement level of every consensus equals 1 - min(1, std_dev / mean) of
\* the input scaled values and lies in [0,1]; a batch whose mean is 0 still yields a
\* value in [0,1] and no fault.
C13_AgreementLevel ==
    (call.op = "build_consensus" /\ Len(call.analyses) >= 2) =>
        /\ call.ret.status = "Ok"
        /\ In01(call.ret.agreement_level)
        /\ call.ret.mean_seconds # Zero =>
               LET ratio == FDiv(call.ret.std_dev, call.ret.mean_seconds)
               IN  call.ret.agreement_level =
                       IF FLt(One, ratio) THEN Zero ELSE FSub(One, ratio)

\* a consensus has been built from a batch whose mean scaled value is 0
C13_Witness ==
    /\ call.op = "build_consensus"
    /\ call.ret.status = "Ok"
    /\ call.ret.mean_seconds = Zero
    /\ In01(call.ret.agreement_level)

\* the largest difference between two of the values
SpreadOf(values) ==
    CHOOSE d \in {values[i] - values[j] : i, j \in DOMAIN values} :
        \A i, j \in DOMAIN values : d >= values[i] - values[j]

\* C14: build_consensus emits the high-divergence signal exactly when max - min of
\* the input scaled values exceeds max_divergence_seconds, and the signal never fails
\* the operation: the ConsensusAnalysis is the one returned when no threshold is
\* exceeded; [50, 150, 100] with threshold 60 signals and returns std-dev > 20.
C14_DivergenceSignal ==
    (call.op = "build_consensus" /\ Len(call.analyses) >= 2) =>
        LET quiet == ConsensusAnalyzerNew(
                         [analyzer.config EXCEPT
                             !.max_divergence_seconds = MAX_SECONDS_TO_MIDNIGHT])
        IN  /\ call.ret.status = "Ok"
            /\ call.ret.warned <=>
                   SpreadOf(SecondsOf(call.analyses)) > analyzer.config.max_divergence_seconds
            /\ [call.ret EXCEPT !.warned = FALSE] = build_consensus(quiet, call.analyses)
            /\ (SecondsOf(call.analyses) = <<50, 150, 100>>
                    /\ analyzer.config.max_divergence_seconds = 60) =>
                   call.ret.warned /\ FLt(<<20, 1>>, call.ret.std_dev)

\* the batch [50, 150, 100] has been merged under threshold 60 and has signalled
C14_Witness ==
    /\ call.op = "build_consensus"
    /\ SecondsOf(call.analyses) = <<50, 150, 100>>
    /\ analyzer.config.max_divergence_seconds = 60
    /\ call.ret.status = "Ok"
    /\ call.ret.warned

\* position of a bucket in the order Critical, Severe, High, Moderate, Low, Minimal
SeverityRank(level) ==
    CASE level = "Critical" -> 0
      [] level = "Severe" -> 1
      [] level = "High" -> 2
      [] level = "Moderate" -> 3
      [] level = "Low" -> 4
      [] level = "Minimal" -> 5

\* C17: RiskLevel::from_seconds assigns every scaled value in 0..1440 exactly one
\* of the six buckets, and the bucket never becomes more severe as the value grows
\* (0 is Critical, each next value keeps the bucket or moves to the next one, 1440
\* is Minimal); 50 -> Critical, 150 -> Severe, 300 -> High, 500 -> Moderate,
\* 750 -> Low, 1000 -> Minimal.
C17_BucketsPartitionScale ==
    call.op = "from_seconds" =>
        /\ call.ret \in RiskLevel
        /\ call.seconds = 0 => call.ret = "Critical"
        /\ call.seconds = MAX_SECONDS_TO_MIDNIGHT => call.ret = "Minimal"
        /\ call.seconds < MAX_SECONDS_TO_MIDNIGHT =>
               SeverityRank(from_seconds(call.seconds + 1)) - SeverityRank(call.ret)
                   \in {0, 1}
        /\ call.seconds = 50 => call.ret = "Critical"
        /\ call.seconds = 150 => call.ret = "Severe"
        /\ call.seconds = 300 => call.ret = "High"
        /\ call.seconds = 500 => call.ret = "Moderate"
        /\ call.seconds = 750 => call.ret = "Low"
        /\ call.seconds = 1000 => call.ret = "Minimal"

\* from_seconds has been applied to the last value of a bucket
C17_Witness ==
    /\ call.op = "from_seconds"
    /\ call.seconds = 600
    /\ call.ret = "Moderate"
    /\ from_seconds(call.seconds + 1) = "Low"

\* C18: the weights of the default category weight table sum to 1.0 within 0.001,
\* both for the table of RiskCalculationConfig::default() (and so for every engine
\* built with it) and for RiskCategory::default_weight summed over RiskCategory::all().
C18_DefaultWeightsSumToOne ==
    LET sum == FSum([i \in DOMAIN all |-> default_weight(all[i])])
    IN  /\ WeightsSumToOne(RiskCalculationConfigDefault.category_weights)
        /\ FLe(<<999, 1000>>, sum) /\ FLe(sum, <<1001, 1000>>)
        /\ engine.config.category_weights = RiskCalculationConfigDefault.category_weights =>
               WeightsSumToOne(engine.config.category_weights)

\* an engine has just been constructed with the default weight table
C18_Witness ==
    /\ call.op = "new"
    /\ call.config.category_weights = RiskCalculationConfigDefault.category_weights
    /\ engine.config.category_weights = call.config.category_weights

\* the two texts are equal up to the case of their letters
EqualIgnoringCase(a, b) ==
    /\ Len(a) = Len(b)
    /\ \A i \in DOMAIN a :
           \/ a[i] = b[i]
           \/ {a[i], b[i]} \in {{"A", "a"}, {"B", "b"}, {"C", "c"}}

\* index of the first of the texts equal to t ignoring case
FirstOccurrence(texts, t) ==
    CHOOSE p \in DOMAIN texts :
        /\ EqualIgnoringCase(texts[p], t)
        /\ \A q \in 1..(p - 1) : ~EqualIgnoringCase(texts[q], t)

\* merged is the list of the distinct texts ignoring case, each in the spelling of
\* its first occurrence, in the order of the first occurrences
IsFirstSeenMerge(merged, texts) ==
    /\ \A i, j \in DOMAIN merged : i # j => ~EqualIgnoringCase(merged[i], merged[j])
    /\ \A p \in DOMAIN texts : \E i \in DOMAIN merged : EqualIgnoringCase(merged[i], texts[p])
    /\ \A i \in DOMAIN merged :
           /\ \E p \in DOMAIN texts : EqualIgnoringCase(texts[p], merged[i])
           /\ merged[i] = texts[FirstOccurrence(texts, merged[i])]
    /\ \A i, j \in DOMAIN merged :
           i < j => FirstOccurrence(texts, merged[i]) < FirstOccurrence(texts, merged[j])

\* C20: each merged qualitative list of a consensus (critical developments, early
\* warning indicators, recommendations) holds one entry for every distinct input
\* item compared ignoring case, never two entries equal ignoring case, ordered by
\* first occurrence with the analyses scanned in input order and each list front
\* to back.
C20_MergedListsFirstSeen ==
    (call.op = "build_consensus" /\ call.ret.status = "Ok") =>
        LET a == call.analyses
            events == Flatten([i \in DOMAIN a |->
                         [k \in DOMAIN a[i].critical_developments |->
                             a[i].critical_developments[k].event]])
            merged_events == [i \in DOMAIN call.ret.critical_developments |->
                                 call.ret.critical_developments[i][1]]
        IN  /\ IsFirstSeenMerge(merged_events, events)
            /\ IsFirstSeenMerge(call.ret.early_warning_indicators,
                   Flatten([i \in DOMAIN a |-> a[i].early_warning_indicators]))
            /\ IsFirstSeenMerge(call.ret.recommendations,
                   Flatten([i \in DOMAIN a |-> a[i].recommendations]))

\* a consensus whose analyses repeat an indicator in another letter case, and
\* whose merged list starts with the spelling of the first analysis
C20_Witness ==
    /\ call.op = "build_consensus"
    /\ call.ret.status = "Ok"
    /\ Len(call.analyses) = 2
    /\ call.analyses[1].early_warning_indicators = << <<"a", "B">>, <<"C">>, <<"b">> >>
    /\ call.analyses[2].early_warning_indicators = << <<"A", "b">>, <<"c">> >>
    /\ call.ret.early_warning_indicators = << <<"a", "B">>, <<"C">>, <<"b">> >>
    /\ Len(call.ret.critical_developments) = 1
    /\ call.ret.recommendations = << <<"A">> >>

\* C15: two calculate_risk calls with the same engine configuration and the same
\* factor sequence return identical simulation statistics and identical confidence
\* intervals: the result does not depend on the hasher keys of the call's maps.
C15_SameInputSameStatistics ==
    (call.op = "calculate_risk" /\ call.ret.status = "Ok") =>
        \A seed \in HashSeeds :
            LET again == calculate_risk(engine, call.factors, seed)
            IN  /\ again.status = "Ok"
                /\ again.monte_carlo_stats = call.ret.monte_carlo_stats
                /\ again.confidence_interval = call.ret.confidence_interval

\* the mean of the values of the factors of category c, clamped to [0,1]
ClampedMean(factors, c) ==
    LET idx == SelectSeq([i \in DOMAIN factors |-> i], LAMBDA i : factors[i].category = c)
    IN  FClamp(FDiv(FSum([k \in DOMAIN idx |-> factors[idx[k]].value]), <<Len(idx), 1>>),
               Zero, One)

\* the categories that have a factor and a weight
PresentWeighted(weights, factors) ==
    CategoriesIn({factors[i].category : i \in DOMAIN factors} \cap DOMAIN weights)

\* sum of clamped category mean times weight over cats, divided by the sum of the
\* weights of cats, in exact arithmetic
CompositeOf(weights, factors, cats) ==
    FDiv(FSum([k \in DOMAIN cats |-> FMul(ClampedMean(factors, cats[k]), weights[cats[k]])]),
         FSum([k \in DOMAIN cats |-> weights[cats[k]]]))

\* the distance between a and b is at most tol
Within(a, b, tol) == FLe(FSub(a, b), tol) /\ FLe(FSub(b, a), tol)

\* accumulated rounding error of calculate_weighted_score on at most MaxFactors
\* categories: one rounding per operand, product, addition and division, each of
\* relative size 2^-SigBits at most
RoundingTolerance == Frac(2 * MaxFactors + 4, Pow2(SigBits))

\* C19: the raw score is the sum over the present categories of (clamped category
\* mean x weight) divided by the sum of the weights of those categories, up to the
\* rounding of the f64 operations; absent categories do not lower it (when every
\* factor has the value v in [0,1] the raw score is v), and it is 0.0 when the
\* present categories have no weight.
C19_CompositeRenormalised ==
    (call.op = "calculate_risk" /\ call.ret.status = "Ok") =>
        LET weights == engine.config.category_weights
            cats == PresentWeighted(weights, call.factors)
            v == call.factors[1].value
        IN  /\ cats = <<>> => call.ret.raw_score = Zero
            /\ cats # <<>> =>
                   Within(call.ret.raw_score, CompositeOf(weights, call.factors, cats),
                          RoundingTolerance)
            /\ (/\ cats # <<>>
                /\ In01(v)
                /\ \A i \in DOMAIN call.factors : call.factors[i].value = v)
                   => Within(call.ret.raw_score, v, RoundingTolerance)

\* a call with two of the eight weighted categories present, RegionalConflicts at
\* 1.0 and NuclearArsenalChanges at 0.3: the raw score is near
\* (0.2 + 0.045) / 0.35 = 0.7, far from the unnormalised 0.245
C19_Witness ==
    /\ call.op = "calculate_risk"
    /\ call.ret.status = "Ok"
    /\ engine.config.category_weights = DefaultCategoryWeights
    /\ Len(call.factors) = 2
    /\ call.factors[1].category = "RegionalConflicts" /\ call.factors[1].value = One
    /\ call.factors[2].category = "NuclearArsenalChanges" /\ call.factors[2].value = <<3, 10>>
    /\ Within(call.ret.raw_score, <<7, 10>>, RoundingTolerance)
    /\ ~Within(call.ret.raw_score, <<49, 200>>, RoundingTolerance)

\* C16: under every interleaving of the steps of concurrent calculate_risk and
\* build_consensus calls on the shared engine and analyzer, each finished call
\* holds the result the same call gives alone, and the engine and the analyzer
\* keep the configuration they were constructed with.
C16_ConcurrentCallsIsolated ==
    /\ engine = RiskCalculationEngineNew(SweepConfig)
    /\ analyzer = ConsensusAnalyzerNew(ConsensusConfigDefault)
    /\ \A t \in Callers :
           threads[t].pc = "done" =>
               /\ threads[t].op = "calculate_risk" =>
                      threads[t].ret =
                          calculate_risk(engine, threads[t].factors, threads[t].seed)
               /\ threads[t].op = "build_consensus" =>
                      threads[t].ret = build_consensus(analyzer, threads[t].analyses)

\* one caller holds a finished assessment of three factors while the other is in
\* the middle of a call on other factors, its raw score computed and different
C16_Witness ==
    /\ threads["a"].pc = "done"
    /\ threads["a"].op = "calculate_risk"
    /\ Len(threads["a"].factors) = 3
    /\ threads["a"].ret.status = "Ok"
    /\ threads["b"].pc = "bayesian_score"
    /\ threads["b"].factors = <<FactorPool[1]>>
    /\ threads["b"].raw_score # threads["a"].ret.raw_score

\* the mean of the numeric confidence scores of the analyses
MeanConfidence(analyses) ==
    FDiv(FSum([i \in DOMAIN analyses |-> to_score(analyses[i].confidence_level)]),
         <<Len(analyses), 1>>)

\* standard deviations to compare the one of a batch with
StdDevGrid ==
    {Zero, <<1, 2>>, <<7, 2>>, <<5, 1>>, <<20, 1>>, <<29, 1>>, <<30, 1>>, <<31, 1>>,
     <<50, 1>>, <<500, 1>>}

\* C21: the confidence of a consensus is the mean of the confidence scores of its
\* analyses minus min(0.3, std_dev / 100), clamped to [0,1]; it never exceeds the
\* mean input confidence, and a smaller standard deviation with the same
\* confidences never gives a smaller confidence.
C21_ConfidencePenalty ==
    (call.op = "build_consensus" /\ call.ret.status = "Ok") =>
        LET mean == MeanConfidence(call.analyses)
            ratio == FDiv(call.ret.std_dev, <<100, 1>>)
            penalty == IF FLt(<<3, 10>>, ratio) THEN <<3, 10>> ELSE ratio
            net == FSub(mean, penalty)
        IN  /\ call.ret.confidence =
                   (IF FLt(net, Zero) THEN Zero ELSE IF FLt(One, net) THEN One ELSE net)
            /\ FLe(call.ret.confidence, mean)
            /\ In01(call.ret.confidence)
            /\ \A s \in StdDevGrid :
                   FLe(s, call.ret.std_dev) =>
                       FLe(call.ret.confidence,
                           calculate_consensus_confidence(call.analyses, s))

\* a consensus of analyses 0 and 1000 seconds apart: the penalty is capped at 0.3
\* and the confidence is 0.8 - 0.3
C21_Witness ==
    /\ call.op = "build_consensus"
    /\ call.ret.status = "Ok"
    /\ SecondsOf(call.analyses) = <<0, 1000>>
    /\ MeanConfidence(call.analyses) = <<4, 5>>
    /\ FLt(<<30, 1>>, call.ret.std_dev)
    /\ call.ret.confidence = <<1, 2>>

\* the factors with each value moved by ((i / n) - 0.5) * 0.2 * (1 - confidence)
\* and clamped to [0,1]
SweepFactors(factors, i, n) ==
    [k \in DOMAIN factors |->
        [factors[k] EXCEPT
            !.value = FClamp(FAdd(factors[k].value,
                                  FMul(FMul(FSub(Frac(i, n), <<1, 2>>), <<1, 5>>),
                                       FSub(One, to_numeric(factors[k].confidence)))),
                             Zero, One)]]

\* the composite scores of the n sweep iterations, in iteration order
SweepScores(self, factors, n, seed) ==
    [i \in 1..n |->
        calculate_weighted_score(
            self, calculate_category_scores(self, SweepFactors(factors, i - 1, n)), seed)]

\* x is the element at index idx (from 0) of the scores sorted ascending
IsOrderStatistic(scores, x, idx) ==
    /\ \E j \in DOMAIN scores : scores[j] = x
    /\ Cardinality({j \in DOMAIN scores : FLt(scores[j], x)}) <= idx
    /\ Cardinality({j \in DOMAIN scores : FLt(x, scores[j])}) <= Len(scores) - 1 - idx

\* stats are the statistics of the scores: mean, population standard deviation,
\* and the sorted scores at floor(n * 0.05), floor(n / 2) and floor(n * 0.95)
StatisticsOfScores(stats, scores, n) ==
    LET mean == FDiv(FSum(scores), <<n, 1>>)
        squares == [j \in DOMAIN scores |->
                       FMul(FSub(scores[j], mean), FSub(scores[j], mean))]
    IN  /\ Len(scores) = n
        /\ stats.mean = mean
        /\ stats.std_dev = FSqrt(FDiv(FSum(squares), <<n, 1>>))
        /\ IsOrderStatistic(scores, stats.percentile_5, (n * 5) \div 100)
        /\ IsOrderStatistic(scores, stats.median, n \div 2)
        /\ IsOrderStatistic(scores, stats.percentile_95, (n * 95) \div 100)

\* C22: with the simulation enabled and N iterations, the statistics of a result
\* are those of exactly N sweep scores, score i being the composite of the factors
\* with each value replaced by clamp(value + ((i/N) - 0.5) * 0.2 * (1 - confidence),
\* 0, 1); p5, median and p95 are the sorted scores at indices floor(N * 0.05),
\* floor(N / 2) and floor(N * 0.95), so p5 <= median <= p95.
C22_SweepStatistics ==
    (/\ call.op = "calculate_risk"
     /\ call.ret.status = "Ok"
     /\ engine.config.enable_monte_carlo) =>
        LET n == engine.config.monte_carlo_iterations
            stats == call.ret.monte_carlo_stats
        IN  /\ stats.status = "Ok"
            /\ \E seed \in HashSeeds :
                   StatisticsOfScores(stats, SweepScores(engine, call.factors, n, seed), n)
            /\ FLe(stats.percentile_5, stats.median)
            /\ FLe(stats.median, stats.percentile_95)
            /\ call.ret.confidence_interval = <<stats.percentile_5, stats.percentile_95>>

\* a sweep of MaxIterations scores that are all different: p5 < median < p95
C22_Witness ==
    /\ call.op = "calculate_risk"
    /\ call.ret.status = "Ok"
    /\ engine.config.enable_monte_carlo
    /\ engine.config.monte_carlo_iterations = MaxIterations
    /\ FLt(call.ret.monte_carlo_stats.percentile_5, call.ret.monte_carlo_stats.median)
    /\ FLt(call.ret.monte_carlo_stats.median, call.ret.monte_carlo_stats.percentile_95)
    /\ FLt(Zero, call.ret.monte_carlo_stats.std_dev)

\* the (name, value x category weight) pair of a factor whose category has a weight
Contribution(weights, factor) ==
    <<factor.name, FMul(factor.value, weights[factor.category])>>

\* C23: the primary drivers of a result are min(5, number of factors) entries, one
\* (name, value x category weight) pair per retained factor, sorted by
\* non-increasing contribution, and no omitted factor contributes more than a
\* retained one.
C23_TopFiveDrivers ==
    (call.op = "calculate_risk" /\ call.ret.status = "Ok") =>
        LET drivers == call.ret.primary_drivers
            weights == engine.config.category_weights
            factors == call.factors
        IN  /\ Len(drivers) = (IF Len(factors) < 5 THEN Len(factors) ELSE 5)
            /\ \A i \in DOMAIN drivers :
                   \E k \in DOMAIN factors :
                       /\ factors[k].category \in DOMAIN weights
                       /\ drivers[i] = Contribution(weights, factors[k])
            /\ \A i, j \in DOMAIN drivers : i < j => FLe(drivers[j][2], drivers[i][2])
            /\ \A k \in DOMAIN factors :
                   factors[k].category \in DOMAIN weights =>
                       \/ \E i \in DOMAIN drivers : drivers[i] = Contribution(weights, factors[k])
                       \/ \A i \in DOMAIN drivers :
                              FLe(Contribution(weights, factors[k])[2], drivers[i][2])

\* number of the factors tagged with the trend
CountTagged(factors, trend) ==
    Cardinality({k \in DOMAIN factors : factors[k].trend = trend})

\* C24: with d factors tagged Deteriorating and i tagged Improving, the trend of a
\* result is Deteriorating iff d > 2i, Improving iff i > 2d and Stable otherwise;
\* the two conditions never hold together, factors tagged Stable or Uncertain or
\* not tagged do not change the outcome, and no tagged factor gives Stable.
C24_TrendByCounts ==
    (call.op = "calculate_risk" /\ call.ret.status = "Ok") =>
        LET d == CountTagged(call.factors, "Deteriorating")
            i == CountTagged(call.factors, "Improving")
            tagged == SelectSeq(call.factors,
                                LAMBDA f : f.trend \in {"Deteriorating", "Improving"})
        IN  /\ (call.ret.trend_direction = "Deteriorating") = (d > 2 * i)
            /\ (call.ret.trend_direction = "Improving") = (i > 2 * d)
            /\ (call.ret.trend_direction = "Stable") = (~(d > 2 * i) /\ ~(i > 2 * d))
            /\ ~(d > 2 * i /\ i > 2 * d)
            /\ call.ret.trend_direction = determine_trend(engine, tagged)
            /\ tagged = <<>> => call.ret.trend_direction = "Stable"

\* a result for a factor tagged Stable, an untagged factor and a Deteriorating
\* one: the trend is Deteriorating
C24_Witness ==
    /\ call.op = "calculate_risk"
    /\ call.ret.status = "Ok"
    /\ Len(call.factors) = 3
    /\ CountTagged(call.factors, "Stable") = 1
    /\ CountTagged(call.factors, "None") = 1
    /\ CountTagged(call.factors, "Deteriorating") = 1
    /\ call.ret.trend_direction = "Deteriorating"

\* C25: with the simulation enabled, calculate_risk on a non-empty factor sequence
\* returns a result for every configured iteration count N >= 0, 0 and 1 included:
\* the percentile indices address collected scores and the mean and the standard
\* deviation are defined.
C25_ResultForEveryIterationCount ==
    (/\ call.op = "calculate_risk"
     /\ call.factors # <<>>
     /\ engine.config.enable_monte_carlo) =>
        /\ call.ret.status = "Ok"
        /\ call.ret.monte_carlo_stats.status = "Ok"
        /\ IsFinite(call.ret.monte_carlo_stats.mean)
        /\ IsFinite(call.ret.monte_carlo_stats.std_dev)

\* C26: under the default weight table every RiskCategory variant has a weight, so
\* every factor of a call takes part in the composite score and in the ranking of
\* the primary drivers: none is dropped.
C26_NoFactorDropped ==
    (/\ call.op = "calculate_risk"
     /\ call.ret.status = "Ok"
     /\ engine.config.category_weights = RiskCalculationConfigDefault.category_weights) =>
        LET weights == engine.config.category_weights
        IN  /\ RiskCategories \subseteq DOMAIN weights
            /\ \A k \in DOMAIN call.factors :
                   /\ call.factors[k].category \in DOMAIN weights
                   /\ Len(call.factors) <= 5 =>
                          \E i \in DOMAIN call.ret.primary_drivers :
                              call.ret.primary_drivers[i][1] = call.factors[k].name

\* C27: the confidence interval of every result brackets the adjusted score it
\* qualifies: lower <= bayesian_score <= upper, for every factor list, confidence
\* mix and setting of the Bayesian and simulation flags.
C27_IntervalBracketsScore ==
    (call.op = "calculate_risk" /\ call.ret.status = "Ok") =>
        /\ FLe(call.ret.confidence_interval[1], call.ret.bayesian_score)
        /\ FLe(call.ret.bayesian_score, call.ret.confidence_interval[2])

\* the analyses of the runs that succeeded, in run order
SuccessfulAnalyses(outcomes) ==
    LET ok == SelectSeq(outcomes, LAMBDA o : o.kind = "Ok")
    IN  [i \in DOMAIN ok |-> ok[i].analysis]

\* C28: analyze_with_consensus returns a consensus assessment exactly when at least
\* 2 of its 3 runs succeed, whichever run fails and whether its API call or its
\* parse fails: the failed run is skipped, all runs are attempted, and the
\* successful analyses alone are passed to build_consensus.
C28_ToleratesFailedRun ==
    call.op = "analyze_with_consensus" =>
        LET good == SuccessfulAnalyses(call.outcomes)
        IN  /\ (call.ret.status = "Ok") = (Len(good) >= 2)
            /\ call.ret.attempted = num_analyses
            /\ call.ret.status = "Ok" =>
                   /\ call.ret.analyses = good
                   /\ call.ret.consensus = build_consensus(analyzer, good)

\* C29: under every interleaving of concurrent acquire calls on one RateLimiter,
\* the requests admitted in a window (request_count, which counts the admissions
\* since the window was reset) never exceed requests_per_minute and the tokens
\* admitted in it stay below tokens_per_minute.
C29_LimitsHoldUnderConcurrency ==
    /\ limiter.request_count <= limiter.requests_per_minute
    /\ limiter.token_count < limiter.tokens_per_minute


\* C30: when all analyses of a batch report the same scaled value (so the standard
\* deviation is 0), the agreement level of the consensus is 1, for every such value,
\* 0 included.
C30_UnanimousAgreementIsOne ==
    (/\ call.op = "build_consensus"
     /\ Len(call.analyses) >= 2
     /\ \A i \in DOMAIN call.analyses :
            call.analyses[i].seconds_to_midnight = call.analyses[1].seconds_to_midnight) =>
        /\ call.ret.status = "Ok"
        /\ call.ret.std_dev = Zero
        /\ call.ret.agreement_level = One
====
